---- MODULE Spec2Model ----
(***************************************************************************)
(* A model of the MovieWeb data manager (SQLiteDataManager) and the tables *)
(* it works on, of the routes that call it, and of the recommendation      *)
(* route with the cleaning of the AI service's answers.                    *)
(*                                                                         *)
(* Conventions                                                             *)
(*   - Python's None is the empty tuple, a present value x is <<x>>.       *)
(*   - A text is a sequence of one-character strings, so that strip() and  *)
(*     lower() are computed, not assumed.                                  *)
(*   - A rating on the 0-5 scale is an integer number of hundredths        *)
(*     (4.0 is 400); a provider rating on the 0-10 scale is an integer     *)
(*     number of tenths (7.3 is 73).                                       *)
(*   - Of the descriptive columns only `director` is carried: plot,        *)
(*     runtime, awards, language, genre, actors, writer, country,          *)
(*     metascore and rated go through the same statements.                 *)
(***************************************************************************)
EXTENDS Integers, Sequences, FiniteSets, TLC

VARIABLES
    users,        \* table users: id -> name
    movies,       \* table movies: id -> row
    user_movies,  \* table user_movies: <<user_id, movie_id>> -> the rows of the pair, oldest first
    last,         \* the last call made to the data manager: its name and whether it succeeded
    reqs,         \* the requests in flight that run concurrently: slot -> position and what it has read
    session_user, \* session['user_id'] of the client making requests, 0 when it holds none
    comments,     \* table comments: id -> row
    ai_history,   \* session['ai_recommendation_history'] of the client: titles, oldest first
    ai_title,     \* the last request for an interpreted title: its input, the service's answer, the reply
    cache,        \* the dictionary cache of api/routes.py: key -> (timestamp, response)
    now           \* time.time(), in seconds since the start

\* the variables that the calls on users, movies and user_movies leave alone
others == <<reqs, session_user, comments, ai_history, ai_title, cache, now>>

vars == <<users, movies, user_movies, last, reqs, session_user, comments, ai_history, ai_title, cache, now>>

----------------------------------------------------------------------------
(* Optional values and texts *)

None == <<>>

Some(x) == <<x>>

IsNone(o) == Len(o) = 0

Val(o) == o[1]

LowerChar(c) ==
    CASE c = "A" -> "a"
      [] c = "B" -> "b"
      [] c = "C" -> "c"
      [] c = "D" -> "d"
      [] c = "E" -> "e"
      [] c = "F" -> "f"
      [] c = "G" -> "g"
      [] c = "H" -> "h"
      [] c = "I" -> "i"
      [] c = "J" -> "j"
      [] c = "K" -> "k"
      [] c = "L" -> "l"
      [] c = "M" -> "m"
      [] c = "N" -> "n"
      [] c = "O" -> "o"
      [] c = "P" -> "p"
      [] c = "Q" -> "q"
      [] c = "R" -> "r"
      [] c = "S" -> "s"
      [] c = "T" -> "t"
      [] c = "U" -> "u"
      [] c = "V" -> "v"
      [] c = "W" -> "w"
      [] c = "X" -> "x"
      [] c = "Y" -> "y"
      [] c = "Z" -> "z"
      [] OTHER -> c

Lower(s) == [i \in DOMAIN s |-> LowerChar(s[i])]

RECURSIVE LStrip(_)
LStrip(s) == IF Len(s) > 0 /\ s[1] = " " THEN LStrip(Tail(s)) ELSE s

RECURSIVE RStrip(_)
RStrip(s) == IF Len(s) > 0 /\ s[Len(s)] = " " THEN RStrip(SubSeq(s, 1, Len(s) - 1)) ELSE s

Strip(s) == RStrip(LStrip(s))

\* `x.strip() or None` of a text
StripOrNone(s) == IF Len(Strip(s)) = 0 THEN None ELSE Some(Strip(s))

Max(S) == CHOOSE x \in S : \A y \in S : y <= x

RECURSIVE SumSeq(_)
SumSeq(s) == IF Len(s) = 0 THEN 0 ELSE Head(s) + SumSeq(Tail(s))

RECURSIVE Flatten(_, _)
\* all rows of the pairs in P, as one sequence
Flatten(ums, P) ==
    IF P = {} THEN <<>>
    ELSE LET p == CHOOSE q \in P : TRUE
         IN ums[p] \o Flatten(ums, P \ {p})

----------------------------------------------------------------------------
(* Bounds and input domains *)

MaxMovies == 2

UserIds == {1, 2}

ReqIds == {1, 2}

MaxComments == 2

CommentIds == 1 .. MaxComments

CommentTexts == { <<" ">>, <<"x", " ">> }

MovieIds == 1 .. MaxMovies

CurrentYear == 2026

UserNames == { <<>>, <<"A", " ">>, <<"B">> }

ImdbIds == {None, Some("tt1"), Some("tt2")}

Ratings == {None, Some(200), Some(400), Some(550)}

----------------------------------------------------------------------------
(* The state after construction: the persisted database.  One user is      *)
(* registered; the catalog is empty or holds one row from before the       *)
(* imdb_id column was filled (the column is nullable).                     *)

LegacyMovie ==
    [title |-> <<"j">>, year |-> Some(1999), imdb_id |-> None, director |-> None,
     initial_omdb_rating |-> None, community_rating |-> None,
     community_rating_count |-> 0]

NoRet == [ok |-> FALSE, movie |-> None, created |-> FALSE]

\* a slot with no request in it
Idle ==
    [pc |-> "idle", movie_id |-> 0, loaded |-> <<None, 0>>, computed |-> <<None, 0>>,
     user_id |-> 0, rating |-> None, found |-> FALSE, row |-> None]

Init ==
    /\ users = (1 :> <<"a">>)
    /\ movies \in { <<>>, (1 :> LegacyMovie) }
    /\ user_movies = [p \in UserIds \X MovieIds |-> <<>>]
    /\ last = [op |-> "none", ok |-> TRUE]
    /\ reqs = [i \in ReqIds |-> Idle]
    /\ session_user = 0
    /\ comments = <<>>
    /\ ai_history = <<>>
    /\ ai_title = [user_input |-> <<>>, answer |-> [kind |-> "none"], title |-> <<>>]
    /\ cache = <<>>
    /\ now = 0

----------------------------------------------------------------------------
(* Storage faults.  A commit can raise SQLAlchemyError (for SQLite:        *)
(* "database is locked", disk full).  A call is made with one fault point: *)
(* the commit at that point, if the call reaches it, fails.  Spec makes    *)
(* every call with "none"; SpecFault draws the fault point.                *)

Faults == {"none", "resolve_commit", "link_commit", "recompute_commit"}

----------------------------------------------------------------------------
(* _update_community_rating *)

\* round(total / count, 2) of Python on hundredths: to the nearest, a tie to
\* the even neighbour (ratings are half points, so every tie is exact in
\* binary floating point).
Round2(total, count) ==
    LET q == total \div count
        r == total % count
    IN IF 2 * r < count THEN q
       ELSE IF 2 * r > count THEN q + 1
       ELSE IF q % 2 = 0 THEN q ELSE q + 1

\* the non-null user_rating values of the rows of movie_id
UserRatingsList(ums, movie_id) ==
    LET rows == Flatten(ums, {p \in DOMAIN ums : p[2] = movie_id})
        rated == SelectSeq(rows, LAMBDA r : ~IsNone(r))
    IN [i \in DOMAIN rated |-> Val(rated[i])]

\* A faulty variant: the seed is added to the total but not counted as a vote.
UpdateCommunityRating_SeedNotCounted(ms, ums, movie_id) ==
    IF movie_id \notin DOMAIN ms
    THEN [movies |-> ms, ok |-> FALSE]
    ELSE LET movie == ms[movie_id]
             seeded == ~IsNone(movie.initial_omdb_rating)
             user_ratings_list == UserRatingsList(ums, movie_id)
             current_total_rating ==
                 (IF seeded THEN Val(movie.initial_omdb_rating) ELSE 0)
                 + SumSeq(user_ratings_list)
             current_rating_count == Len(user_ratings_list)
         IN [movies |->
                 IF current_rating_count > 0
                 THEN [ms EXCEPT
                         ![movie_id].community_rating =
                             Some(Round2(current_total_rating, current_rating_count)),
                         ![movie_id].community_rating_count = current_rating_count]
                 ELSE [ms EXCEPT
                         ![movie_id].community_rating = None,
                         ![movie_id].community_rating_count = 0],
             ok |-> TRUE]

UpdateCommunityRating(ms, ums, movie_id) ==
    IF movie_id \notin DOMAIN ms
    THEN [movies |-> ms, ok |-> FALSE]
    ELSE LET movie == ms[movie_id]
             seeded == ~IsNone(movie.initial_omdb_rating)
             user_ratings_list == UserRatingsList(ums, movie_id)
             current_total_rating ==
                 (IF seeded THEN Val(movie.initial_omdb_rating) ELSE 0)
                 + SumSeq(user_ratings_list)
             current_rating_count ==
                 (IF seeded THEN 1 ELSE 0) + Len(user_ratings_list)
         IN [movies |->
                 IF current_rating_count > 0
                 THEN [ms EXCEPT
                         ![movie_id].community_rating =
                             Some(Round2(current_total_rating, current_rating_count)),
                         ![movie_id].community_rating_count = current_rating_count]
                 ELSE [ms EXCEPT
                         ![movie_id].community_rating = None,
                         ![movie_id].community_rating_count = 0],
             ok |-> TRUE]

----------------------------------------------------------------------------
(* _validate_movie_input *)

ValidRating(rating) ==
    IF IsNone(rating) THEN TRUE ELSE 0 <= Val(rating) /\ Val(rating) <= 500

\* A faulty variant: only the title is validated.
ValidateMovieInput_TitleOnly(title, year, rating) == Len(title) > 0

ValidateMovieInput(title, year, rating) ==
    /\ Len(title) > 0
    /\ ~(~IsNone(year) /\ Val(year) > CurrentYear)
    /\ ValidRating(rating)

----------------------------------------------------------------------------
(* _parse_omdb_data_for_movie_fields.  movie_data is a record whose        *)
(* DOMAIN is the set of keys present.  A year text is a sequence of the    *)
(* segments between its dashes; a rating text is a record telling its kind.*)

Get(d, k, default) == IF k \in DOMAIN d THEN d[k] ELSE default

Truthy(o) == ~IsNone(o) /\ Val(o) # ""

NA == <<"N", "/", "A">>

YearStr(y) == << [digits |-> TRUE, value |-> y] >>

NumStr(tenths) == [kind |-> "num", tenths |-> tenths]

\* the provider ratings n (tenths, n odd) where round(n / 10 / 2, 1) goes up
Round1TiesUp ==
    {1, 9, 11, 13, 15, 21, 27, 31, 35, 37, 47, 49, 55, 57, 59, 67, 69, 75, 77,
     79, 83, 89, 93, 95, 99}

\* round(rating10 / 2, 1), in hundredths of the 0-5 scale
Rating5(tenths) ==
    IF tenths % 2 = 0 THEN 5 * tenths
    ELSE IF tenths \in Round1TiesUp THEN 5 * tenths + 5 ELSE 5 * tenths - 5

ParseYear(year_str) ==
    IF Len(year_str) = 0 THEN None
    ELSE IF year_str[1].digits THEN Some(year_str[1].value) ELSE None

ParseInitialOmdbRating(raw_omdb_rating) ==
    IF IsNone(raw_omdb_rating) THEN None
    ELSE IF Val(raw_omdb_rating).kind # "num" THEN None
    ELSE LET rating5 == Rating5(Val(raw_omdb_rating).tenths)
         IN IF 0 <= rating5 /\ rating5 <= 500 THEN Some(rating5) ELSE None

\* what the metadata provider reports as imdbRating for an external id: one
\* title is unrated ("N/A" reaches the data manager as no rating), one has 7.0
ProviderRating(imdb_id) ==
    IF imdb_id = Some("tt2") THEN Some(NumStr(70)) ELSE None

\* .strip() of None raises AttributeError
ParseCrashes(movie_data) ==
    \/ IsNone(Get(movie_data, "Title", Some(NA)))
    \/ IsNone(Get(movie_data, "Director", Some(<<>>)))
    \/ IsNone(Get(movie_data, "Year", Some(<<>>)))

ParseOmdbDataForMovieFields(movie_data) ==
    [title |-> Strip(Val(Get(movie_data, "Title", Some(NA)))),
     director |-> StripOrNone(Val(Get(movie_data, "Director", Some(<<>>)))),
     imdb_id |-> Get(movie_data, "imdbID", None),
     year |-> ParseYear(Val(Get(movie_data, "Year", Some(<<>>)))),
     initial_omdb_rating |-> ParseInitialOmdbRating(Get(movie_data, "imdbRating", None)),
     community_rating |-> None,
     community_rating_count |-> 0]

----------------------------------------------------------------------------
(* add_movie_globally, as a function of the tables: the tables after the   *)
(* call, the movie returned, whether it was created, and whether the call  *)
(* needs a movie id beyond the model's catalog bound.                      *)

MoviesByImdbId(ms, imdb_id) == {m \in DOMAIN ms : ms[m].imdb_id = imdb_id}

NewMovieId(ms) == Max(DOMAIN ms \cup {0}) + 1

\* A faulty variant: a known external id has its record refreshed from the
\* new data.
AddMovieGlobally_Refresh(ms, ums, movie_data, fault) ==
    LET raw_imdb_id == Get(movie_data, "imdbID", None)
        failed == [movies |-> ms, movie |-> None, created |-> FALSE, capped |-> FALSE]
        new_id == NewMovieId(ms)
        old_id == CHOOSE m \in MoviesByImdbId(ms, raw_imdb_id) : TRUE
    IN IF ~Truthy(raw_imdb_id) THEN failed
       ELSE IF ParseCrashes(movie_data) THEN failed
       ELSE IF MoviesByImdbId(ms, raw_imdb_id) # {}
       THEN [failed EXCEPT
               !.movies = UpdateCommunityRating(
                   [ms EXCEPT ![old_id] = ParseOmdbDataForMovieFields(movie_data)],
                   ums, old_id).movies,
               !.movie = Some(old_id)]
       ELSE IF new_id \notin MovieIds THEN [failed EXCEPT !.capped = TRUE]
       ELSE LET flushed == ms @@ (new_id :> ParseOmdbDataForMovieFields(movie_data))
            IN [movies |-> UpdateCommunityRating(flushed, ums, new_id).movies,
                movie |-> Some(new_id), created |-> TRUE, capped |-> FALSE]

AddMovieGlobally(ms, ums, movie_data, fault) ==
    LET raw_imdb_id == Get(movie_data, "imdbID", None)
        failed == [movies |-> ms, movie |-> None, created |-> FALSE, capped |-> FALSE]
        new_id == NewMovieId(ms)
    IN IF ~Truthy(raw_imdb_id) THEN failed
       ELSE IF MoviesByImdbId(ms, raw_imdb_id) # {}
       THEN [failed EXCEPT !.movie = Some(CHOOSE m \in MoviesByImdbId(ms, raw_imdb_id) : TRUE)]
       ELSE IF ParseCrashes(movie_data) THEN failed
       ELSE IF new_id \notin MovieIds THEN [failed EXCEPT !.capped = TRUE]
       ELSE IF fault = "resolve_commit" THEN failed
       ELSE LET flushed == ms @@ (new_id :> ParseOmdbDataForMovieFields(movie_data))
            IN [movies |-> UpdateCommunityRating(flushed, ums, new_id).movies,
                movie |-> Some(new_id), created |-> TRUE, capped |-> FALSE]

----------------------------------------------------------------------------
(* _get_or_create_movie_internal.  `pick` is the row .first() returns for  *)
(* the title and year query, 0 when no row matches: the query has no       *)
(* ORDER BY, so any matching row may come first.                           *)

TitleYearMatches(ms, title, year) ==
    IF Len(title) > 0 /\ ~IsNone(year)
    THEN {m \in DOMAIN ms : Lower(ms[m].title) = Lower(title) /\ ms[m].year = year}
    ELSE {}

FirstChoices(S) == IF S = {} THEN {0} ELSE S

\* A faulty variant: the backfill also takes over the title of the request.
GetOrCreateMovieInternal_BackfillTitle(ms, ums, title, year, imdb_id, omdb_data, pick, fault) ==
    LET failed == [movies |-> ms, movie |-> None, created |-> FALSE, capped |-> FALSE]
        by_id == IF Truthy(imdb_id) THEN MoviesByImdbId(ms, imdb_id) ELSE {}
    IN IF by_id # {}
       THEN [failed EXCEPT !.movie = Some(CHOOSE m \in by_id : TRUE)]
       ELSE IF pick # 0
       THEN IF Truthy(imdb_id) /\ ~Truthy(ms[pick].imdb_id)
            THEN [failed EXCEPT !.movies = [ms EXCEPT ![pick].imdb_id = imdb_id,
                                                      ![pick].title = title],
                                !.movie = Some(pick)]
            ELSE [failed EXCEPT !.movie = Some(pick)]
       ELSE IF ~IsNone(omdb_data)
       THEN AddMovieGlobally(ms, ums, Val(omdb_data), fault)
       ELSE failed

\* A faulty variant: the backfill also clears the aggregate of the record.
GetOrCreateMovieInternal_BackfillClearsAggregate(ms, ums, title, year, imdb_id, omdb_data, pick, fault) ==
    LET failed == [movies |-> ms, movie |-> None, created |-> FALSE, capped |-> FALSE]
        by_id == IF Truthy(imdb_id) THEN MoviesByImdbId(ms, imdb_id) ELSE {}
    IN IF by_id # {}
       THEN [failed EXCEPT !.movie = Some(CHOOSE m \in by_id : TRUE)]
       ELSE IF pick # 0
       THEN IF Truthy(imdb_id) /\ ~Truthy(ms[pick].imdb_id)
            THEN IF fault = "resolve_commit" THEN failed
                 ELSE [failed EXCEPT !.movies = [ms EXCEPT ![pick].imdb_id = imdb_id,
                                                           ![pick].community_rating = None,
                                                           ![pick].community_rating_count = 0],
                                     !.movie = Some(pick)]
            ELSE [failed EXCEPT !.movie = Some(pick)]
       ELSE IF ~IsNone(omdb_data)
       THEN AddMovieGlobally(ms, ums, Val(omdb_data), fault)
       ELSE failed

\* A faulty variant: the external id of the request replaces the one the
\* title and year match already carries.
GetOrCreateMovieInternal_OverwritesExternalId(ms, ums, title, year, imdb_id, omdb_data, pick, fault) ==
    LET failed == [movies |-> ms, movie |-> None, created |-> FALSE, capped |-> FALSE]
        by_id == IF Truthy(imdb_id) THEN MoviesByImdbId(ms, imdb_id) ELSE {}
    IN IF by_id # {}
       THEN [failed EXCEPT !.movie = Some(CHOOSE m \in by_id : TRUE)]
       ELSE IF pick # 0
       THEN IF Truthy(imdb_id)
            THEN IF fault = "resolve_commit" THEN failed
                 ELSE [failed EXCEPT !.movies = [ms EXCEPT ![pick].imdb_id = imdb_id],
                                     !.movie = Some(pick)]
            ELSE [failed EXCEPT !.movie = Some(pick)]
       ELSE IF ~IsNone(omdb_data)
       THEN AddMovieGlobally(ms, ums, Val(omdb_data), fault)
       ELSE failed

GetOrCreateMovieInternal(ms, ums, title, year, imdb_id, omdb_data, pick, fault) ==
    LET failed == [movies |-> ms, movie |-> None, created |-> FALSE, capped |-> FALSE]
        by_id == IF Truthy(imdb_id) THEN MoviesByImdbId(ms, imdb_id) ELSE {}
    IN IF by_id # {}
       THEN [failed EXCEPT !.movie = Some(CHOOSE m \in by_id : TRUE)]
       ELSE IF pick # 0
       THEN IF Truthy(imdb_id) /\ ~Truthy(ms[pick].imdb_id)
            THEN IF fault = "resolve_commit" THEN failed
                 ELSE [failed EXCEPT !.movies = [ms EXCEPT ![pick].imdb_id = imdb_id],
                                     !.movie = Some(pick)]
            ELSE [failed EXCEPT !.movie = Some(pick)]
       ELSE IF ~IsNone(omdb_data)
       THEN AddMovieGlobally(ms, ums, Val(omdb_data), fault)
       ELSE failed

----------------------------------------------------------------------------
(* _create_or_update_user_movie_link *)

\* A faulty variant: a row is inserted whether or not the pair has one.
CreateOrUpdateUserMovieLink_AlwaysInsert(ums, user_id, movie_id, rating) ==
    [ums EXCEPT ![<<user_id, movie_id>>] = <<rating>> \o ums[<<user_id, movie_id>>]]

CreateOrUpdateUserMovieLink(ums, user_id, movie_id, rating) ==
    LET rows == ums[<<user_id, movie_id>>]
    IN IF Len(rows) = 0
       THEN [ums EXCEPT ![<<user_id, movie_id>>] = <<rating>>]
       ELSE IF rows[1] # rating
       THEN [ums EXCEPT ![<<user_id, movie_id>>] = [rows EXCEPT ![1] = rating]]
       ELSE ums

----------------------------------------------------------------------------
(* add_movie *)

AddMovieInput(u, t, d, y, r, i) ==
    [user_id |-> u, title |-> t, director |-> d, year |-> y, rating |-> r,
     imdb_id |-> i,
     omdb_rating_for_community |->
         IF IsNone(ProviderRating(i)) THEN None
         ELSE ParseInitialOmdbRating(ProviderRating(i))]

\* well-formed requests, and requests with one field missing or out of range
AddMovieInputs ==
    { AddMovieInput(u, <<"J", " ">>, Some(<<"D">>), Some(1999), r, i) :
        u \in UserIds, r \in {None, Some(200), Some(400)}, i \in ImdbIds }
    \cup { AddMovieInput(u, <<"J", " ">>, Some(<<"D">>), None, Some(400), i) :
        u \in UserIds, i \in ImdbIds }
    \cup { AddMovieInput(1, t, Some(<<"D">>), Some(1999), Some(400), Some("tt1")) :
        t \in {<<>>, <<" ">>} }
    \cup { AddMovieInput(1, <<"J", " ">>, Some(<<"D">>), Some(CurrentYear + 1), Some(400), Some("tt1")) }
    \cup { AddMovieInput(1, <<"J", " ">>, Some(<<"D">>), Some(1999), r, Some("tt1")) :
        r \in {Some(550), Some(0 - 50)} }
    \cup { AddMovieInput(1, <<"J", " ">>, None, Some(1999), Some(400), i) :
        i \in ImdbIds \ {None} }

OmdbDataPayload(inp, title_cleaned) ==
    IF Truthy(inp.imdb_id)
    THEN Some([Title |-> Some(title_cleaned),
               Director |-> inp.director,
               Year |-> IF ~IsNone(inp.year) /\ Val(inp.year) # 0
                        THEN Some(YearStr(Val(inp.year))) ELSE None,
               imdbID |-> inp.imdb_id,
               imdbRating |-> IF ~IsNone(inp.omdb_rating_for_community)
                              THEN Some(NumStr((Val(inp.omdb_rating_for_community) * 2) \div 10))
                              ELSE None])
    ELSE None

AddMovie(us, ms, ums, inp, pick, fault) ==
    LET title_cleaned == Strip(inp.title)
        failed == [movies |-> ms, user_movies |-> ums, ret |-> NoRet, capped |-> FALSE]
        got == GetOrCreateMovieInternal(ms, ums, title_cleaned, inp.year, inp.imdb_id,
                                        OmdbDataPayload(inp, title_cleaned), pick, fault)
        movie_id == Val(got.movie)
        linked == CreateOrUpdateUserMovieLink(ums, inp.user_id, movie_id, inp.rating)
        done == [ok |-> TRUE, movie |-> got.movie, created |-> got.created]
    IN IF ~ValidateMovieInput(title_cleaned, inp.year, inp.rating) THEN failed
       ELSE IF inp.user_id \notin DOMAIN us THEN failed
       ELSE IF got.capped THEN [failed EXCEPT !.capped = TRUE]
       ELSE IF IsNone(got.movie) THEN failed
       ELSE IF fault = "link_commit" THEN [failed EXCEPT !.movies = got.movies]
       ELSE IF fault = "recompute_commit"
       THEN [movies |-> got.movies, user_movies |-> linked, ret |-> done, capped |-> FALSE]
       ELSE [movies |-> UpdateCommunityRating(got.movies, linked, movie_id).movies,
             user_movies |-> linked, ret |-> done, capped |-> FALSE]

AddMovieCall(inp, fault) ==
    \E pick \in FirstChoices(TitleYearMatches(movies, Strip(inp.title), inp.year)) :
        LET res == AddMovie(users, movies, user_movies, inp, pick, fault)
        IN /\ ~res.capped
           /\ last' = [op |-> "add_movie", ok |-> res.ret.ok]
           /\ movies' = res.movies
           /\ user_movies' = res.user_movies
           /\ UNCHANGED <<users, others>>

----------------------------------------------------------------------------
(* add_movie_globally, as called by the check_or_create_movie_by_imdb      *)
(* endpoint with the provider's record                                     *)

MovieDataInputs ==
    { [imdbID |-> i, Title |-> Some(<<"J", " ">>), Director |-> Some(<<"D">>),
       Year |-> Some(YearStr(1999)), imdbRating |-> ProviderRating(i)] :
        i \in ImdbIds }

AddMovieGloballyCall(movie_data, fault) ==
    LET res == AddMovieGlobally(movies, user_movies, movie_data, fault)
    IN /\ ~res.capped
       /\ last' = [op |-> "add_movie_globally", ok |-> ~IsNone(res.movie)]
       /\ movies' = res.movies
       /\ UNCHANGED <<users, user_movies, others>>

----------------------------------------------------------------------------
(* update_user_rating_for_movie: the tables after the call and the value   *)
(* returned                                                                *)

UpdateUserRatingForMovie(ms, ums, user_id, movie_id, new_rating, fault) ==
    LET rows == ums[<<user_id, movie_id>>]
        updated == [ums EXCEPT ![<<user_id, movie_id>>] = [rows EXCEPT ![1] = new_rating]]
        recomputed == UpdateCommunityRating(ms, updated, movie_id)
    IN IF Len(rows) = 0 THEN [movies |-> ms, user_movies |-> ums, ok |-> FALSE]
       ELSE IF ~ValidRating(new_rating) THEN [movies |-> ms, user_movies |-> ums, ok |-> FALSE]
       ELSE IF fault = "link_commit" THEN [movies |-> ms, user_movies |-> ums, ok |-> FALSE]
       ELSE IF fault = "recompute_commit"
       THEN [movies |-> ms, user_movies |-> updated, ok |-> FALSE]
       ELSE [movies |-> recomputed.movies, user_movies |-> updated, ok |-> recomputed.ok]

UpdateUserRatingForMovieCall(user_id, movie_id, new_rating, fault) ==
    LET res == UpdateUserRatingForMovie(movies, user_movies, user_id, movie_id, new_rating, fault)
    IN /\ last' = [op |-> "update_user_rating_for_movie", ok |-> res.ok]
       /\ movies' = res.movies
       /\ user_movies' = res.user_movies
       /\ UNCHANGED <<users, others>>

----------------------------------------------------------------------------
(* add_existing_movie_to_user_list *)

\* A faulty variant: the user and the movie are not looked up.
AddExistingMovieToUserList_NoLookup(us, ms, ums, user_id, movie_id, fault) ==
    LET rows == ums[<<user_id, movie_id>>]
        added == [ums EXCEPT ![<<user_id, movie_id>>] = Append(rows, None)]
        recomputed == UpdateCommunityRating(ms, added, movie_id)
    IN IF Len(rows) > 0 THEN [movies |-> ms, user_movies |-> ums, ok |-> TRUE]
       ELSE [movies |-> recomputed.movies, user_movies |-> added, ok |-> recomputed.ok]

\* A faulty variant: an existing membership has its rating cleared.
AddExistingMovieToUserList_ClearsRating(us, ms, ums, user_id, movie_id, fault) ==
    LET rows == ums[<<user_id, movie_id>>]
        added == [ums EXCEPT ![<<user_id, movie_id>>] = <<None>>]
        recomputed == UpdateCommunityRating(ms, added, movie_id)
    IN IF user_id \notin DOMAIN us THEN [movies |-> ms, user_movies |-> ums, ok |-> FALSE]
       ELSE IF movie_id \notin DOMAIN ms THEN [movies |-> ms, user_movies |-> ums, ok |-> FALSE]
       ELSE [movies |-> recomputed.movies, user_movies |-> added, ok |-> recomputed.ok]

AddExistingMovieToUserList(us, ms, ums, user_id, movie_id, fault) ==
    LET rows == ums[<<user_id, movie_id>>]
        added == [ums EXCEPT ![<<user_id, movie_id>>] = Append(rows, None)]
        recomputed == UpdateCommunityRating(ms, added, movie_id)
    IN IF user_id \notin DOMAIN us THEN [movies |-> ms, user_movies |-> ums, ok |-> FALSE]
       ELSE IF movie_id \notin DOMAIN ms THEN [movies |-> ms, user_movies |-> ums, ok |-> FALSE]
       ELSE IF Len(rows) > 0 THEN [movies |-> ms, user_movies |-> ums, ok |-> TRUE]
       ELSE IF fault = "link_commit" THEN [movies |-> ms, user_movies |-> ums, ok |-> FALSE]
       ELSE IF fault = "recompute_commit"
       THEN [movies |-> ms, user_movies |-> added, ok |-> FALSE]
       ELSE [movies |-> recomputed.movies, user_movies |-> added, ok |-> recomputed.ok]

AddExistingMovieToUserListCall(user_id, movie_id, fault) ==
    LET res == AddExistingMovieToUserList(users, movies, user_movies, user_id, movie_id, fault)
    IN /\ last' = [op |-> "add_existing_movie_to_user_list", ok |-> res.ok]
       /\ movies' = res.movies
       /\ user_movies' = res.user_movies
       /\ UNCHANGED <<users, others>>

----------------------------------------------------------------------------
(* delete_movie_from_user_list *)

\* A faulty variant: the row is deleted and the aggregate is left as it was.
DeleteMovieFromUserList_NoRecompute(ms, ums, user_id, movie_id, fault) ==
    LET rows == ums[<<user_id, movie_id>>]
        deleted == [ums EXCEPT ![<<user_id, movie_id>>] = Tail(rows)]
    IN IF Len(rows) = 0 THEN [movies |-> ms, user_movies |-> ums, ok |-> FALSE]
       ELSE [movies |-> ms, user_movies |-> deleted, ok |-> TRUE]

\* A faulty variant: a missing row is reported as deleted.
DeleteMovieFromUserList_AlwaysTrue(ms, ums, user_id, movie_id, fault) ==
    LET rows == ums[<<user_id, movie_id>>]
        deleted == [ums EXCEPT ![<<user_id, movie_id>>] = Tail(rows)]
        recomputed == UpdateCommunityRating(ms, deleted, movie_id)
    IN IF Len(rows) = 0 THEN [movies |-> ms, user_movies |-> ums, ok |-> TRUE]
       ELSE [movies |-> recomputed.movies, user_movies |-> deleted, ok |-> recomputed.ok]

DeleteMovieFromUserList(ms, ums, user_id, movie_id, fault) ==
    LET rows == ums[<<user_id, movie_id>>]
        deleted == [ums EXCEPT ![<<user_id, movie_id>>] = Tail(rows)]
        recomputed == UpdateCommunityRating(ms, deleted, movie_id)
    IN IF Len(rows) = 0 THEN [movies |-> ms, user_movies |-> ums, ok |-> FALSE]
       ELSE IF fault = "link_commit" THEN [movies |-> ms, user_movies |-> ums, ok |-> FALSE]
       ELSE IF fault = "recompute_commit"
       THEN [movies |-> ms, user_movies |-> deleted, ok |-> FALSE]
       ELSE [movies |-> recomputed.movies, user_movies |-> deleted, ok |-> recomputed.ok]

DeleteMovieFromUserListCall(user_id, movie_id, fault) ==
    LET res == DeleteMovieFromUserList(movies, user_movies, user_id, movie_id, fault)
    IN /\ last' = [op |-> "delete_movie_from_user_list", ok |-> res.ok]
       /\ movies' = res.movies
       /\ user_movies' = res.user_movies
       /\ UNCHANGED <<users, others>>

----------------------------------------------------------------------------
(* add_user *)

AddUser(us, name) ==
    LET name_processed == Lower(Strip(name))
        duplicate == \E u \in DOMAIN us : Lower(us[u]) = name_processed
        new_id == Max(DOMAIN us \cup {0}) + 1
    IN IF Len(name_processed) = 0 \/ duplicate
       THEN [users |-> us, ok |-> FALSE]
       ELSE [users |-> us @@ (new_id :> name_processed), ok |-> TRUE]

\* the model registers users only within UserIds
AddUserCall(name) ==
    LET res == AddUser(users, name)
    IN /\ DOMAIN res.users \subseteq UserIds
       /\ last' = [op |-> "add_user", ok |-> res.ok]
       /\ users' = res.users
       /\ UNCHANGED <<movies, user_movies, others>>

----------------------------------------------------------------------------
(* The data manager, one call at a time, on a store that does not fail *)

Next ==
    \/ \E name \in UserNames : AddUserCall(name)
    \/ \E inp \in AddMovieInputs : AddMovieCall(inp, "none")
    \/ \E movie_data \in MovieDataInputs : AddMovieGloballyCall(movie_data, "none")
    \/ \E u \in UserIds, m \in MovieIds, r \in Ratings :
           UpdateUserRatingForMovieCall(u, m, r, "none")
    \/ \E u \in UserIds, m \in MovieIds : AddExistingMovieToUserListCall(u, m, "none")
    \/ \E u \in UserIds, m \in MovieIds : DeleteMovieFromUserListCall(u, m, "none")

Spec == Init /\ [][Next]_vars

----------------------------------------------------------------------------
(* The data manager on a store where one commit of a call may raise        *)
(* SQLAlchemyError                                                         *)

FaultedAddMovieInputs ==
    { AddMovieInput(u, <<"J", " ">>, Some(<<"D">>), Some(1999), r, i) :
        u \in UserIds, r \in {None, Some(400)}, i \in ImdbIds }

NextFault ==
    \/ \E name \in UserNames : AddUserCall(name)
    \/ \E inp \in FaultedAddMovieInputs, fault \in Faults : AddMovieCall(inp, fault)
    \/ \E u \in UserIds, m \in MovieIds, fault \in Faults :
           UpdateUserRatingForMovieCall(u, m, Some(200), fault)
    \/ \E u \in UserIds, m \in MovieIds, fault \in Faults :
           AddExistingMovieToUserListCall(u, m, fault)
    \/ \E u \in UserIds, m \in MovieIds, fault \in Faults :
           DeleteMovieFromUserListCall(u, m, fault)

SpecFault == Init /\ [][NextFault]_vars

----------------------------------------------------------------------------
(* Requests that run concurrently.  A rating change is two transactions:   *)
(* the entry is written and committed, then _update_community_rating reads *)
(* the movie and its ratings, and writes and commits the aggregate.        *)
(* Nothing is locked between the read and the write, and the flush writes  *)
(* only the columns whose value differs from the one loaded.  `last`       *)
(* records the calls made one at a time.                                   *)

\* the tables once the entry is committed and before the recomputation
BeginRequest(i, ms, ums, movie_id) ==
    /\ reqs[i].pc = "idle"
    /\ movies' = ms
    /\ user_movies' = ums
    /\ reqs' = [reqs EXCEPT ![i] = [Idle EXCEPT !.pc = "read", !.movie_id = movie_id]]
    /\ UNCHANGED <<users, last, session_user, comments, ai_history, ai_title, cache, now>>

BeginUpdateUserRating(i, user_id, movie_id, new_rating) ==
    /\ Len(user_movies[<<user_id, movie_id>>]) > 0
    /\ ValidRating(new_rating)
    /\ BeginRequest(i, movies,
                    UpdateUserRatingForMovie(movies, user_movies, user_id, movie_id,
                                             new_rating, "recompute_commit").user_movies,
                    movie_id)

BeginDeleteFromUserList(i, user_id, movie_id) ==
    /\ Len(user_movies[<<user_id, movie_id>>]) > 0
    /\ BeginRequest(i, movies,
                    DeleteMovieFromUserList(movies, user_movies, user_id, movie_id,
                                            "recompute_commit").user_movies,
                    movie_id)

BeginAddMovie(i, inp) ==
    \E pick \in FirstChoices(TitleYearMatches(movies, Strip(inp.title), inp.year)) :
        LET res == AddMovie(users, movies, user_movies, inp, pick, "recompute_commit")
        IN /\ ~res.capped
           /\ res.ret.ok
           /\ BeginRequest(i, res.movies, res.user_movies, Val(res.ret.movie))

\* _update_community_rating up to the assignment of the new values
RecomputeRead(i) ==
    LET movie_id == reqs[i].movie_id
        new == UpdateCommunityRating(movies, user_movies, movie_id).movies[movie_id]
    IN /\ reqs[i].pc = "read"
       /\ reqs' = [reqs EXCEPT
                     ![i].pc = "write",
                     ![i].loaded = <<movies[movie_id].community_rating,
                                     movies[movie_id].community_rating_count>>,
                     ![i].computed = <<new.community_rating, new.community_rating_count>>]
       /\ UNCHANGED <<users, movies, user_movies, last, session_user, comments, ai_history, ai_title, cache, now>>

\* the flush and commit of _update_community_rating
RecomputeWrite(i) ==
    LET movie_id == reqs[i].movie_id
        loaded == reqs[i].loaded
        computed == reqs[i].computed
    IN /\ reqs[i].pc = "write"
       /\ movies' = [movies EXCEPT
                       ![movie_id].community_rating =
                           IF computed[1] # loaded[1] THEN computed[1] ELSE @,
                       ![movie_id].community_rating_count =
                           IF computed[2] # loaded[2] THEN computed[2] ELSE @]
       /\ reqs' = [reqs EXCEPT ![i] = Idle]
       /\ UNCHANGED <<users, user_movies, last, session_user, comments, ai_history, ai_title, cache, now>>

ConcurrentRatings == {None, Some(200)}

ConcurrentAddMovieInputs ==
    { AddMovieInput(u, <<"J", " ">>, Some(<<"D">>), Some(1999), Some(400), Some("tt1")) :
        u \in UserIds }

NextConcurrent ==
    \/ \E name \in UserNames : AddUserCall(name)
    \/ \E inp \in ConcurrentAddMovieInputs : AddMovieCall(inp, "none")
    \/ \E i \in ReqIds, inp \in ConcurrentAddMovieInputs : BeginAddMovie(i, inp)
    \/ \E i \in ReqIds, u \in UserIds, m \in MovieIds, r \in ConcurrentRatings :
           BeginUpdateUserRating(i, u, m, r)
    \/ \E i \in ReqIds, u \in UserIds, m \in MovieIds : BeginDeleteFromUserList(i, u, m)
    \/ \E i \in ReqIds : RecomputeRead(i)
    \/ \E i \in ReqIds : RecomputeWrite(i)

SpecConcurrent == Init /\ [][NextConcurrent]_vars

----------------------------------------------------------------------------
(* Concurrent additions to a list.  _create_or_update_user_movie_link and  *)
(* add_existing_movie_to_user_list look for the row of the pair and, when  *)
(* the query found none, add one; the table has no unique constraint on    *)
(* (user_id, movie_id), and the row is written when the session commits.   *)
(* A request stops between its query and its commit.                       *)

\* add_movie up to the query of _create_or_update_user_movie_link
BeginLinkAddMovie(i, inp) ==
    \E pick \in {0} \cup MovieIds :
        LET title_cleaned == Strip(inp.title)
            got == GetOrCreateMovieInternal(movies, user_movies, title_cleaned, inp.year,
                                            inp.imdb_id, OmdbDataPayload(inp, title_cleaned),
                                            pick, "none")
            rows == user_movies[<<inp.user_id, Val(got.movie)>>]
        IN /\ pick \in FirstChoices(TitleYearMatches(movies, title_cleaned, inp.year))
           /\ reqs[i].pc = "idle"
           /\ ValidateMovieInput(title_cleaned, inp.year, inp.rating)
           /\ inp.user_id \in DOMAIN users
           /\ ~got.capped
           /\ ~IsNone(got.movie)
           /\ movies' = got.movies
           /\ reqs' = [reqs EXCEPT ![i] =
                         [Idle EXCEPT !.pc = "insert", !.movie_id = Val(got.movie),
                                      !.user_id = inp.user_id, !.rating = inp.rating,
                                      !.found = Len(rows) > 0,
                                      !.row = IF Len(rows) > 0 THEN rows[1] ELSE None]]
           /\ UNCHANGED <<users, user_movies, last, session_user, comments, ai_history, ai_title, cache, now>>

\* add_existing_movie_to_user_list up to its query; a request that finds
\* the row returns at once
BeginLinkAddExisting(i, user_id, movie_id) ==
    /\ reqs[i].pc = "idle"
    /\ user_id \in DOMAIN users
    /\ movie_id \in DOMAIN movies
    /\ Len(user_movies[<<user_id, movie_id>>]) = 0
    /\ reqs' = [reqs EXCEPT ![i] =
                  [Idle EXCEPT !.pc = "insert", !.movie_id = movie_id,
                               !.user_id = user_id, !.rating = None]]
    /\ UNCHANGED <<users, movies, user_movies, last, session_user, comments, ai_history, ai_title, cache, now>>

\* the row the request adds or changes, given what its query found
LinkWrite(ums, req) ==
    LET pair == <<req.user_id, req.movie_id>>
    IN IF ~req.found THEN [ums EXCEPT ![pair] = Append(@, req.rating)]
       ELSE IF req.row # req.rating /\ Len(ums[pair]) > 0
       THEN [ums EXCEPT ![pair] = [@ EXCEPT ![1] = req.rating]]
       ELSE ums

\* the commit of the row, and the recomputation that follows it
CommitLink(i) ==
    LET written == LinkWrite(user_movies, reqs[i])
    IN /\ reqs[i].pc = "insert"
       /\ user_movies' = written
       /\ movies' = UpdateCommunityRating(movies, written, reqs[i].movie_id).movies
       /\ reqs' = [reqs EXCEPT ![i] = Idle]
       /\ UNCHANGED <<users, last, session_user, comments, ai_history, ai_title, cache, now>>

NextLinks ==
    \/ \E name \in UserNames : AddUserCall(name)
    \/ \E i \in ReqIds, inp \in ConcurrentAddMovieInputs : BeginLinkAddMovie(i, inp)
    \/ \E i \in ReqIds, u \in UserIds, m \in MovieIds : BeginLinkAddExisting(i, u, m)
    \/ \E i \in ReqIds : CommitLink(i)
    \/ \E u \in UserIds, m \in MovieIds : DeleteMovieFromUserListCall(u, m, "none")

SpecLinks == Init /\ [][NextLinks]_vars

----------------------------------------------------------------------------
(* The HTML routes of app.py that reach the ledger.  g.user is the user of *)
(* session['user_id'], loaded before each request; a route that answers    *)
(* with a redirect before it calls the data manager changes nothing.       *)

GetUserByName(us, name) == {u \in DOMAIN us : Lower(us[u]) = Lower(Strip(name))}

Login(name) ==
    /\ \E u \in GetUserByName(users, name) : session_user' = u
    /\ UNCHANGED <<users, movies, user_movies, last, reqs, comments, ai_history, ai_title, cache, now>>

Register(name) ==
    LET res == AddUser(users, Strip(name))
    IN /\ DOMAIN res.users \subseteq UserIds
       /\ res.ok
       /\ users' = res.users
       /\ session_user' = Max(DOMAIN res.users)
       /\ last' = [op |-> "add_user", ok |-> TRUE]
       /\ UNCHANGED <<movies, user_movies, reqs, comments, ai_history, ai_title, cache, now>>

Logout ==
    /\ session_user' = 0
    /\ UNCHANGED <<users, movies, user_movies, last, reqs, comments, ai_history, ai_title, cache, now>>

\* POST /users/<user_id>/add_movie
RouteAddMovie(inp) ==
    /\ inp.user_id \in DOMAIN users
    /\ Len(Strip(inp.title)) > 0
    /\ ValidRating(inp.rating)
    /\ AddMovieCall(inp, "none")

\* POST /users/<user_id>/update_movie_rating/<movie_id>
RouteUpdateMovieRating(user_id, movie_id, new_user_rating) ==
    /\ session_user # 0
    /\ session_user = user_id
    /\ movie_id \in DOMAIN movies
    /\ Len(user_movies[<<session_user, movie_id>>]) > 0
    /\ ValidRating(new_user_rating)
    /\ UpdateUserRatingForMovieCall(session_user, movie_id, new_user_rating, "none")

\* POST /users/<user_id>/delete_movie/<movie_id>
RouteDeleteMovie(user_id, movie_id) ==
    DeleteMovieFromUserListCall(user_id, movie_id, "none")

\* POST /user/add_movie_to_list/<movie_id>
RouteAddMovieToList(movie_id) ==
    /\ session_user # 0
    /\ AddExistingMovieToUserListCall(session_user, movie_id, "none")

\* POST /user/list/remove/<movie_id>
RouteRemoveMovieFromList(movie_id) ==
    /\ session_user # 0
    /\ DeleteMovieFromUserListCall(session_user, movie_id, "none")

WebAddMovieInputs ==
    { AddMovieInput(u, <<"J", " ">>, Some(<<"D">>), Some(1999), r, Some("tt1")) :
        u \in UserIds, r \in {None, Some(400)} }

WebRatings == {None, Some(200)}

NextWeb ==
    \/ \E name \in UserNames : Register(name)
    \/ \E name \in UserNames \cup {<<"a">>} : Login(name)
    \/ Logout
    \/ \E inp \in WebAddMovieInputs : RouteAddMovie(inp)
    \/ \E u \in UserIds, m \in MovieIds, r \in WebRatings : RouteUpdateMovieRating(u, m, r)
    \/ \E u \in UserIds, m \in MovieIds : RouteDeleteMovie(u, m)
    \/ \E m \in MovieIds : RouteAddMovieToList(m)
    \/ \E m \in MovieIds : RouteRemoveMovieFromList(m)

SpecWeb == Init /\ [][NextWeb]_vars

----------------------------------------------------------------------------
(* add_comment and the global delete_movie.  The relationships of Movie    *)
(* cascade the deletion to its user_movies and comments rows.              *)

AddComment(us, ms, cs, movie_id, user_id, text) ==
    LET comment_text == Strip(text)
        new_id == Max(DOMAIN cs \cup {0}) + 1
        failed == [comments |-> cs, ok |-> FALSE]
    IN IF Len(comment_text) = 0 THEN failed
       ELSE IF user_id \notin DOMAIN us THEN failed
       ELSE IF movie_id \notin DOMAIN ms THEN failed
       ELSE [comments |-> cs @@ (new_id :> [movie_id |-> movie_id, user_id |-> user_id,
                                             text |-> comment_text]),
             ok |-> TRUE]

\* the model stores comments only within CommentIds
AddCommentCall(movie_id, user_id, text) ==
    LET res == AddComment(users, movies, comments, movie_id, user_id, text)
    IN /\ DOMAIN res.comments \subseteq CommentIds
       /\ last' = [op |-> "add_comment", ok |-> res.ok]
       /\ comments' = res.comments
       /\ UNCHANGED <<users, movies, user_movies, reqs, session_user, ai_history, ai_title, cache, now>>

\* the function f without the keys in K
Without(f, K) == [k \in DOMAIN f \ K |-> f[k]]

\* A faulty variant: the movie row goes and the rows that refer to it stay.
DeleteMovie_NoCascade(ms, ums, cs, movie_id) ==
    IF movie_id \notin DOMAIN ms
    THEN [movies |-> ms, user_movies |-> ums, comments |-> cs, ok |-> FALSE]
    ELSE [movies |-> Without(ms, {movie_id}), user_movies |-> ums, comments |-> cs,
          ok |-> TRUE]

DeleteMovie(ms, ums, cs, movie_id) ==
    IF movie_id \notin DOMAIN ms
    THEN [movies |-> ms, user_movies |-> ums, comments |-> cs, ok |-> FALSE]
    ELSE [movies |-> Without(ms, {movie_id}),
          user_movies |-> [p \in DOMAIN ums |-> IF p[2] = movie_id THEN <<>> ELSE ums[p]],
          comments |-> Without(cs, {c \in DOMAIN cs : cs[c].movie_id = movie_id}),
          ok |-> TRUE]

DeleteMovieCall(movie_id) ==
    LET res == DeleteMovie(movies, user_movies, comments, movie_id)
    IN /\ last' = [op |-> "delete_movie", ok |-> res.ok]
       /\ movies' = res.movies
       /\ user_movies' = res.user_movies
       /\ comments' = res.comments
       /\ UNCHANGED <<users, reqs, session_user, ai_history, ai_title, cache, now>>

NextCatalog ==
    \/ \E name \in UserNames : AddUserCall(name)
    \/ \E inp \in WebAddMovieInputs : AddMovieCall(inp, "none")
    \/ \E movie_data \in MovieDataInputs : AddMovieGloballyCall(movie_data, "none")
    \/ \E u \in UserIds, m \in MovieIds : AddExistingMovieToUserListCall(u, m, "none")
    \/ \E u \in UserIds, m \in MovieIds : DeleteMovieFromUserListCall(u, m, "none")
    \/ \E u \in UserIds, m \in MovieIds, text \in CommentTexts : AddCommentCall(m, u, text)
    \/ \E m \in MovieIds : DeleteMovieCall(m)

SpecCatalog == Init /\ [][NextCatalog]_vars

----------------------------------------------------------------------------
(* All writers of the tables: the ledger operations, which may fail at the *)
(* commit of the recomputation, add_user, add_comment and delete_movie     *)

WriterFaults == {"none", "recompute_commit"}

NextWriters ==
    \/ \E name \in UserNames : AddUserCall(name)
    \/ \E inp \in WebAddMovieInputs, fault \in WriterFaults : AddMovieCall(inp, fault)
    \/ \E u \in UserIds, m \in MovieIds, fault \in WriterFaults :
           UpdateUserRatingForMovieCall(u, m, Some(200), fault)
    \/ \E u \in UserIds, m \in MovieIds, fault \in WriterFaults :
           AddExistingMovieToUserListCall(u, m, fault)
    \/ \E u \in UserIds, m \in MovieIds, fault \in WriterFaults :
           DeleteMovieFromUserListCall(u, m, fault)
    \/ \E u \in UserIds, m \in MovieIds, text \in CommentTexts : AddCommentCall(m, u, text)
    \/ \E m \in MovieIds : DeleteMovieCall(m)

SpecWriters == Init /\ [][NextWriters]_vars

----------------------------------------------------------------------------
(* POST /api/check_or_create_movie_by_imdb: the JSON body of the request   *)
(* goes to add_movie_globally as it came.                                  *)

\* the rating text "N/A"
NARating == [kind |-> "na", tenths |-> 0]

\* request bodies: the provider's records, and records whose title is
\* blank, whose year lies ahead, or whose fields hold the placeholder
ApiMovieDataInputs ==
    { [imdbID |-> i, Title |-> Some(t), Director |-> Some(d),
       Year |-> Some(YearStr(y)), imdbRating |-> r] :
        i \in ImdbIds, t \in {<<"J", " ">>, <<" ">>}, d \in {<<"D">>, NA},
        y \in {1999, CurrentYear + 1},
        r \in {None, Some(NARating), Some(NumStr(70)), Some(NumStr(72))} }

CheckOrCreateMovieByImdb(data) ==
    LET imdb_id == Get(data, "imdbID", None)
    IN IF ~Truthy(imdb_id)
       THEN /\ last' = [op |-> "check_or_create_movie_by_imdb", ok |-> FALSE]
            /\ UNCHANGED <<users, movies, user_movies, others>>
       ELSE IF MoviesByImdbId(movies, imdb_id) # {}
       THEN /\ last' = [op |-> "check_or_create_movie_by_imdb", ok |-> TRUE]
            /\ UNCHANGED <<users, movies, user_movies, others>>
       ELSE AddMovieGloballyCall(data, "none")

NextApi ==
    \/ \E name \in UserNames : AddUserCall(name)
    \/ \E inp \in WebAddMovieInputs : AddMovieCall(inp, "none")
    \/ \E data \in ApiMovieDataInputs : CheckOrCreateMovieByImdb(data)
    \/ \E m \in MovieIds : DeleteMovieCall(m)

SpecApi == Init /\ [][NextApi]_vars

----------------------------------------------------------------------------
(* The cleaning of the AI service's answers.  The space is the only        *)
(* whitespace inside a line; lines are separated by "\n".                  *)

Digits == {"0", "1", "2", "3", "4", "5", "6", "7", "8", "9"}

Quote == "\""

RECURSIVE DropWhile(_, _)
\* s without its longest prefix of characters in S
DropWhile(s, S) == IF Len(s) > 0 /\ s[1] \in S THEN DropWhile(Tail(s), S) ELSE s

StartsWith(s, p) == Len(s) >= Len(p) /\ SubSeq(s, 1, Len(p)) = p

\* re.sub("^" + prefix + ":?", "", s, flags=re.IGNORECASE).strip()
RemoveTextPrefix(s, prefix) ==
    IF StartsWith(Lower(s), prefix)
    THEN LET rest == SubSeq(s, Len(prefix) + 1, Len(s))
         IN Strip(IF StartsWith(rest, <<":">>) THEN Tail(rest) ELSE rest)
    ELSE Strip(s)

\* re.sub(r"^^\s*-\s*", "", s).strip()
RemoveDashPrefix(s) ==
    IF StartsWith(LStrip(s), <<"-">>) THEN Strip(Tail(LStrip(s))) ELSE Strip(s)

\* re.sub(r"^^\s*\d+[.,\\)]\s*", "", s).strip()
RemoveNumberPrefix(s) ==
    LET rest == DropWhile(LStrip(s), Digits)
    IN IF Len(rest) < Len(LStrip(s)) /\ StartsWith(rest, <<".">>) THEN Strip(Tail(rest))
       ELSE IF Len(rest) < Len(LStrip(s)) /\ StartsWith(rest, <<",">>) THEN Strip(Tail(rest))
       ELSE IF Len(rest) < Len(LStrip(s)) /\ StartsWith(rest, <<")">>) THEN Strip(Tail(rest))
       ELSE IF Len(rest) < Len(LStrip(s)) /\ StartsWith(rest, <<"\\">>) THEN Strip(Tail(rest))
       ELSE Strip(s)

TextPrefixes ==
    << <<"t", "h", "e", " ", "m", "o", "s", "t", " ", "p", "r", "o", "b", "a", "b", "l", "e", " ", "m", "o", "v", "i", "e", " ", "t", "i", "t", "l", "e", " ", "i", "s">>,
       <<"i", "t", " ", "i", "s", " ", "l", "i", "k", "e", "l", "y">>,
       <<"t", "h", "e", " ", "m", "o", "v", "i", "e", " ", "t", "i", "t", "l", "e", " ", "i", "s">>,
       <<"t", "h", "e", " ", "m", "o", "v", "i", "e", " ", "i", "s">>,
       <<"m", "o", "v", "i", "e", " ", "t", "i", "t", "l", "e">>,
       <<"m", "o", "v", "i", "e">>,
       <<"t", "i", "t", "l", "e">> >>

RECURSIVE RemoveTextPrefixes(_, _)
\* the prefixes from the k-th on, removed one after the other
RemoveTextPrefixes(s, k) ==
    IF k > Len(TextPrefixes) THEN s
    ELSE RemoveTextPrefixes(RemoveTextPrefix(s, TextPrefixes[k]), k + 1)

\* the positions p of s where re.search(r'"([^"]+)"', s) can match: a quote
\* followed by at least one other character and then a quote
QuotedAt(s) ==
    {p \in DOMAIN s :
        /\ s[p] = Quote
        /\ \E q \in DOMAIN s : /\ q > p + 1
                               /\ s[q] = Quote
                               /\ \A k \in (p + 1) .. (q - 1) : s[k] # Quote}

Min(S) == CHOOSE x \in S : \A y \in S : x <= y

\* match.group(1) of the leftmost match
FirstQuoted(s) ==
    LET p == Min(QuotedAt(s))
        q == Min({k \in DOMAIN s : k > p /\ s[k] = Quote})
    IN SubSeq(s, p + 1, q - 1)

WithoutTrailingPeriod(s) ==
    IF Len(s) > 0 /\ s[Len(s)] = "." THEN Strip(SubSeq(s, 1, Len(s) - 1)) ELSE s

Surrounded(s, c) == Len(s) > 0 /\ s[1] = c /\ s[Len(s)] = c

CleanAiSingleMovieTitleResponse(raw_content) ==
    LET cleaned_title == Strip(raw_content)
        unprefixed == RemoveNumberPrefix(RemoveDashPrefix(RemoveTextPrefixes(cleaned_title, 1)))
    IN WithoutTrailingPeriod(
         IF QuotedAt(cleaned_title) # {} THEN Strip(FirstQuoted(cleaned_title))
         ELSE IF Surrounded(unprefixed, Quote) \/ Surrounded(unprefixed, "'")
         THEN Strip(SubSeq(unprefixed, 2, Len(unprefixed) - 1))
         ELSE unprefixed)

RECURSIVE Split(_, _)
\* s.split(sep) for a one-character sep
Split(s, sep) ==
    IF \A i \in DOMAIN s : s[i] # sep THEN <<s>>
    ELSE LET i == Min({k \in DOMAIN s : s[k] = sep})
         IN <<SubSeq(s, 1, i - 1)>> \o Split(SubSeq(s, i + 1, Len(s)), sep)

\* the character U+2022, which the model writes as one token
Bullet == "bullet"

ListMarks == {"-", "*", Bullet}

\* list_prefix_pattern.sub("", line): digits, then at most one of , . ) and
\* spaces; or else a run of list marks and spaces
RemoveListPrefix(line) ==
    IF Len(line) = 0 THEN line
    ELSE IF line[1] \in Digits
    THEN LET rest == DropWhile(line, Digits)
         IN LStrip(IF Len(rest) > 0 /\ rest[1] \in {",", ".", ")"} THEN Tail(rest) ELSE rest)
    ELSE IF line[1] \in ListMarks
    THEN LStrip(DropWhile(line, ListMarks))
    ELSE line

RECURSIVE CleanLines(_)
\* the loop over lines_from_ai
CleanLines(lines) ==
    IF Len(lines) = 0 THEN <<>>
    ELSE LET title_candidate == Strip(RemoveListPrefix(Strip(Head(lines))))
             cleaned_title == CleanAiSingleMovieTitleResponse(title_candidate)
         IN IF Len(title_candidate) > 0 /\ Len(cleaned_title) > 0
            THEN <<cleaned_title>> \o CleanLines(Tail(lines))
            ELSE CleanLines(Tail(lines))

\* A faulty variant: the list prefixes stay on the lines.
CleanAiMovieListResponse_KeepsPrefix(raw_content) ==
    SelectSeq(Split(raw_content, "\n"), LAMBDA line : Len(Strip(line)) > 0)

CleanAiMovieListResponse(raw_content) == CleanLines(Split(raw_content, "\n"))

----------------------------------------------------------------------------
(* GET /movie/<movie_id>/ai_recommendations and the history of displayed   *)
(* titles that it keeps in the session.  The AI service is an input: it    *)
(* fails, or it answers with a text.                                       *)

AI_RECOMMENDATION_HISTORY_LENGTH == 20

\* filtered_suggestions[:5]
DisplayLimit == 5

\* title.lower().strip()
Key(title) == Strip(Lower(title))

\* A faulty variant: titles are compared as they are written.
Known_Exact(history, title) == \E i \in DOMAIN history : history[i] = title

\* title.lower().strip() in [h.lower().strip() for h in history]
Known(history, title) == \E i \in DOMAIN history : Key(history[i]) = Key(title)

\* what ask_openrouter_for_movies returns for a list request: an error
\* message, or the cleaned titles
AskOpenrouterForMovies(answer) ==
    IF answer.error \/ Len(answer.raw_content) = 0
    THEN [error |-> TRUE, titles |-> <<>>]
    ELSE [error |-> FALSE, titles |-> CleanAiMovieListResponse(answer.raw_content)]

RECURSIVE Deduplicate(_, _)
\* the titles of suggestions whose key is not in seen_titles, each key once
Deduplicate(suggestions, seen_titles) ==
    IF Len(suggestions) = 0 THEN <<>>
    ELSE IF Key(Head(suggestions)) \in seen_titles
    THEN Deduplicate(Tail(suggestions), seen_titles)
    ELSE <<Head(suggestions)>>
         \o Deduplicate(Tail(suggestions), seen_titles \cup {Key(Head(suggestions))})

\* recommendations_to_display_structured, as titles
Displayed(suggestions, movie_title) ==
    LET filtered_suggestions ==
            Deduplicate(SelectSeq(suggestions, LAMBDA t : Key(t) # Key(movie_title)), {})
    IN SelectSeq(SubSeq(filtered_suggestions, 1,
                        IF Len(filtered_suggestions) < DisplayLimit
                        THEN Len(filtered_suggestions) ELSE DisplayLimit),
                 LAMBDA t : Len(t) > 0)

RECURSIVE AppendNew(_, _)
\* updated_user_history after the loop over the displayed titles
AppendNew(history, displayed) ==
    IF Len(displayed) = 0 THEN history
    ELSE IF Len(Head(displayed)) > 0 /\ ~Known(history, Head(displayed))
    THEN AppendNew(Append(history, Head(displayed)), Tail(displayed))
    ELSE AppendNew(history, Tail(displayed))

RECURSIVE PopFront_FromBack(_)
\* A faulty variant: the newest titles are dropped.
PopFront_FromBack(history) ==
    IF Len(history) > AI_RECOMMENDATION_HISTORY_LENGTH
    THEN PopFront_FromBack(SubSeq(history, 1, Len(history) - 1))
    ELSE history

RECURSIVE PopFront(_)
\* while len(history) > AI_RECOMMENDATION_HISTORY_LENGTH: history.pop(0)
PopFront(history) ==
    IF Len(history) > AI_RECOMMENDATION_HISTORY_LENGTH THEN PopFront(Tail(history))
    ELSE history

\* A faulty variant: the history is stored again even when nothing is new.
RecordDisplayed_AlwaysWrites(history, displayed) ==
    IF Len(displayed) = 0 THEN [history |-> history, written |-> FALSE]
    ELSE [history |-> PopFront(AppendNew(history, displayed)), written |-> TRUE]

\* the session history after a round that displayed the titles, and whether
\* the round assigned it
RecordDisplayed(history, displayed) ==
    LET updated_user_history == AppendNew(history, displayed)
        newly_added_this_round_count == Len(updated_user_history) - Len(history)
    IN IF Len(displayed) = 0 THEN [history |-> history, written |-> FALSE]
       ELSE IF newly_added_this_round_count > 0
       THEN [history |-> PopFront(updated_user_history), written |-> TRUE]
       ELSE [history |-> history, written |-> FALSE]

\* the JSON response of the route and the history it leaves in the
\* session; recommendations is None when the response has no such field
RecommendationsResponse(status, success, recommendations, history, written) ==
    [status |-> status, success |-> success, recommendations |-> recommendations,
     history |-> history, written |-> written]

GetAiMovieRecommendationsRoute(ms, history, movie_id, answer) ==
    LET asked == AskOpenrouterForMovies(answer)
        displayed == Displayed(asked.titles, ms[movie_id].title)
        res == RecordDisplayed(history, displayed)
    IN IF movie_id \notin DOMAIN ms
       THEN RecommendationsResponse(404, FALSE, None, history, FALSE)
       ELSE IF asked.error
       THEN RecommendationsResponse(503, FALSE, Some(<<>>), history, FALSE)
       ELSE IF Len(asked.titles) = 0
       THEN RecommendationsResponse(500, FALSE, None, history, FALSE)
       ELSE IF Len(displayed) = 0
       THEN RecommendationsResponse(500, FALSE, Some(<<>>), history, FALSE)
       ELSE RecommendationsResponse(200, TRUE, Some(displayed), res.history, res.written)

RouteAiRecommendations(movie_id, answer) ==
    LET res == GetAiMovieRecommendationsRoute(movies, ai_history, movie_id, answer)
    IN /\ last' = [op |-> IF res.written THEN "ai_recommendations_recorded"
                          ELSE "ai_recommendations",
                   ok |-> res.success]
       /\ ai_history' = res.history
       /\ UNCHANGED <<users, movies, user_movies, reqs, session_user, comments, ai_title, cache, now>>

\* titles the service suggests in the model, besides those written out below
Pool ==
    << <<"f">>, <<"g">>, <<"h">>, <<"i">>, <<"k">>, <<"l">>, <<"m">>, <<"n">>,
       <<"o">>, <<"p">>, <<"q">>, <<"r">>, <<"s">>, <<"t">>, <<"u">> >>

RECURSIVE RawList(_)
\* the titles as a list with dashes, one per line
RawList(titles) ==
    IF Len(titles) = 0 THEN <<>>
    ELSE <<"-", " ">> \o Head(titles)
         \o (IF Len(titles) > 1 THEN <<"\n">> \o RawList(Tail(titles)) ELSE <<>>)

ExampleRaw == <<"-", " ", "J", "a", "w", "s", "\n", "*", " ", "J", "a", "w", "s", "\n", "1", ".", " ", "T", "h", "e", " ", "S", "h", "i", "n", "i", "n", "g">>

Jaws == <<"J", "a", "w", "s">>

TheShining == <<"T", "h", "e", " ", "S", "h", "i", "n", "i", "n", "g">>

\* the answers of the service: lists of five titles that differ in all
\* titles or only in their spelling, a list of six, and answers with no
\* title
AiRawContents ==
    { RawList(SubSeq(Pool, k, k + 4)) : k \in {1, 6, 11} }
    \cup { <<"A", "\n", "B", "\n", "-", " ", "c", "\n", "-", " ", "d", "\n", "-", " ", "e", "\n", "-", " ", "f">>,
           <<"1", ".", " ", "a", " ", "\n", "2", ".", " ", "C", "\n", "3", ".", " ", "b", "\n", "4", ".", " ", "D", "\n", "5", ".", " ", "e">>,
           ExampleRaw \o <<"\n", "-", " ", "x", "\n", "-", " ", "y", "\n", "-", " ", "z">>,
           <<"J", "\n", "1", ")", " ", "\"", "J", "a", "w", "s", "\"", ".", "\n", "T", "i", "t", "l", "e", ":", " ", "T", "h", "e", " ", "S", "h", "i", "n", "i", "n", "g", "\n", "*", " ", "x", "\n", "*", " ", "y", "\n", "*", " ", "z">>,
           <<" ", "\n", " ">>,
           <<>> }

\* the ways a request to the service fails
AiFailures == {"key_missing", "timeout", "connection", "api_error", "exception"}

AiAnswers ==
    { [error |-> TRUE, kind |-> k, raw_content |-> <<>>] : k \in AiFailures }
    \cup { [error |-> FALSE, kind |-> "content", raw_content |-> r] : r \in AiRawContents }

NextDiscovery ==
    \/ \E m \in MovieIds, answer \in AiAnswers : RouteAiRecommendations(m, answer)

SpecDiscovery == Init /\ [][NextDiscovery]_vars

----------------------------------------------------------------------------
(* get_ai_interpreted_movie_title: the request for one title.  The AI      *)
(* service lacks its key, times out, fails in transport or with an API     *)
(* error, raises, or answers with a text.                                  *)

NO_CLEAR_MOVIE_TITLE_MARKER ==
    <<"N", "O", "_", "C", "L", "E", "A", "R", "_", "M", "O", "V", "I", "E", "_", "T", "I", "T", "L", "E", "_", "F", "O", "U", "N", "D", "_", "I", "N", "T", "E", "R", "N", "A", "L">>

\* the text by which the service says that it found no title
NoClearMovieTitleFound ==
    <<"N", "O", "_", "C", "L", "E", "A", "R", "_", "M", "O", "V", "I", "E", "_", "T", "I", "T", "L", "E", "_", "F", "O", "U", "N", "D">>

AI_MSG_OPENROUTER_KEY_MISSING ==
    <<"O", "p", "e", "n", "R", "o", "u", "t", "e", "r", " ", "A", "P", "I", " ", "K", "e", "y", " ", "n", "o", "t", " ", "c", "o", "n", "f", "i", "g", "u", "r", "e", "d", " ", "o", "n", " ", "s", "e", "r", "v", "e", "r", ".">>

AI_MSG_REQUEST_TIMEOUT ==
    <<"A", "I", " ", "s", "e", "r", "v", "i", "c", "e", " ", "r", "e", "q", "u", "e", "s", "t", " ", "t", "i", "m", "e", "d", " ", "o", "u", "t", ".", " ", "P", "l", "e", "a", "s", "e", " ", "t", "r", "y", " ", "a", "g", "a", "i", "n", " ", "l", "a", "t", "e", "r", ".">>

AI_MSG_CONNECTION_ERROR_GENERIC ==
    <<"E", "r", "r", "o", "r", " ", "c", "o", "n", "n", "e", "c", "t", "i", "n", "g", " ", "t", "o", " ", "A", "I", " ", "s", "e", "r", "v", "i", "c", "e", ".">>

\* AI_MSG_API_ERROR_DETAILED_TEMPLATE.format(error_message=...)
ApiErrorDetailed(error_message) == <<"A", "I", " ", "A", "P", "I", " ", "E", "r", "r", "o", "r", ":", " ">> \o error_message \o <<".">>

\* AI_MSG_UNEXPECTED_ERROR_TEMPLATE.format(error_message=...)
UnexpectedError(error_message) ==
    <<"A", "n", " ", "u", "n", "e", "x", "p", "e", "c", "t", "e", "d", " ", "e", "r", "r", "o", "r", " ", "o", "c", "c", "u", "r", "r", "e", "d", " ", "w", "i", "t", "h", " ", "t", "h", "e", " ", "A", "I", " ", "s", "e", "r", "v", "i", "c", "e", ":", " ">> \o error_message \o <<".">>

\* sub in s
Contains(s, sub) ==
    \E i \in 1 .. (Len(s) - Len(sub) + 1) : SubSeq(s, i, i + Len(sub) - 1) = sub

\* what ask_openrouter_for_movies returns for expected_responses = 1
AskOpenrouterForTitle(answer) ==
    CASE answer.kind = "key_missing" -> <<AI_MSG_OPENROUTER_KEY_MISSING>>
      [] answer.kind = "timeout" -> <<AI_MSG_REQUEST_TIMEOUT>>
      [] answer.kind = "connection" -> <<AI_MSG_CONNECTION_ERROR_GENERIC>>
      [] answer.kind = "api_error" -> <<ApiErrorDetailed(answer.text)>>
      [] answer.kind = "exception" -> <<UnexpectedError(answer.text)>>
      [] OTHER ->
           IF Len(answer.text) = 0 THEN <<NO_CLEAR_MOVIE_TITLE_MARKER>>
           ELSE IF answer.text = NoClearMovieTitleFound THEN <<NoClearMovieTitleFound>>
           ELSE LET cleaned_title == CleanAiSingleMovieTitleResponse(answer.text)
                IN IF Len(cleaned_title) > 0 THEN <<cleaned_title>> ELSE <<>>

\* the check for an error message in place of a title
IsErrorPhrase(interpreted_title) ==
    \/ Contains(Lower(interpreted_title), <<"e", "r", "r", "o", "r">>)
    \/ Contains(Lower(interpreted_title), <<"n", "o", "t", " ", "c", "o", "n", "f", "i", "g", "u", "r", "e", "d">>)
    \/ Contains(Lower(interpreted_title), <<"t", "i", "m", "e", "d", " ", "o", "u", "t">>)

\* A faulty variant: the reply is not checked for error messages.
GetAiInterpretedMovieTitle_Unchecked(user_input, answer) ==
    LET raw_ai_response_list == AskOpenrouterForTitle(answer)
    IN IF Len(user_input) = 0 THEN NO_CLEAR_MOVIE_TITLE_MARKER
       ELSE IF Len(raw_ai_response_list) = 0 THEN NO_CLEAR_MOVIE_TITLE_MARKER
       ELSE IF raw_ai_response_list[1] = NoClearMovieTitleFound THEN NO_CLEAR_MOVIE_TITLE_MARKER
       ELSE raw_ai_response_list[1]

\* A faulty variant: the service's own text for "no title" is passed on.
GetAiInterpretedMovieTitle_SentinelAsTitle(user_input, answer) ==
    LET raw_ai_response_list == AskOpenrouterForTitle(answer)
    IN IF Len(user_input) = 0 THEN NO_CLEAR_MOVIE_TITLE_MARKER
       ELSE IF Len(raw_ai_response_list) = 0 THEN NO_CLEAR_MOVIE_TITLE_MARKER
       ELSE IF IsErrorPhrase(raw_ai_response_list[1]) THEN NO_CLEAR_MOVIE_TITLE_MARKER
       ELSE raw_ai_response_list[1]

GetAiInterpretedMovieTitle(user_input, answer) ==
    LET raw_ai_response_list == AskOpenrouterForTitle(answer)
    IN IF Len(user_input) = 0 THEN NO_CLEAR_MOVIE_TITLE_MARKER
       ELSE IF Len(raw_ai_response_list) = 0 THEN NO_CLEAR_MOVIE_TITLE_MARKER
       ELSE IF raw_ai_response_list[1] = NoClearMovieTitleFound THEN NO_CLEAR_MOVIE_TITLE_MARKER
       ELSE IF IsErrorPhrase(raw_ai_response_list[1]) THEN NO_CLEAR_MOVIE_TITLE_MARKER
       ELSE raw_ai_response_list[1]

\* _get_ai_suggestion_for_add_movie_template
GetAiSuggestionForAddMovieTemplate(user_search_input, answer) ==
    /\ ai_title' = [user_input |-> user_search_input, answer |-> answer,
                    title |-> GetAiInterpretedMovieTitle(user_search_input, answer)]
    /\ UNCHANGED <<users, movies, user_movies, last, reqs, session_user, comments, ai_history, cache, now>>

\* texts the service answers with in the model
TitleContents ==
    { <<"1", ".", " ", "\"", "J", "a", "w", "s", "\"">>,
      <<"J", "a", "w", "s">>,
      <<"\"", "J", "a", "w", "s", ".", "\"">>,
      <<" ", "J", "a", "w", "s", " ">>,
      <<"T", "h", "e", " ", "m", "o", "v", "i", "e", " ", "i", "s", ":", " ", "\"", "J", "a", "w", "s", "\"", " ", "(", "1", "9", "7", "5", ")">>,
      <<"\"", "\"", " ", "\"", "J", "a", "w", "s", "\"">>,
      <<"\"", ".", "\"">>,
      <<"T", "i", "t", "l", "e", ":", " ", "J", "a", "w", "s", ".">>,
      <<"t", "h", "e", " ", "m", "o", "v", "i", "e", " ", "t", "i", "t", "l", "e", " ", "i", "s", " ", "J", "a", "w", "s">>,
      <<"'", "J", "a", "w", "s", "'">>,
      <<"-", " ", "J", "a", "w", "s">>,
      <<"2", ")", " ", "J", "a", "w", "s">>,
      <<"M", "o", "v", "i", "e", " ", "4", "3">>,
      <<"T", "i", "t", "l", "e">>,
      <<"m", "o", "v", "i", "e", " ", "t", "i", "t", "l", "e", ":", " ", "m", "o", "v", "i", "e", " ", "x">>,
      <<"\"", "T", "e", "r", "r", "o", "r", "\"">>,
      <<"R", "e", "q", "u", "e", "s", "t", " ", "t", "i", "m", "e", "d", " ", "o", "u", "t">>,
      <<"E", "R", "R", "O", "R">>,
      <<"E", ".", "T", ".">>,
      <<"1", "0", ",", "0", "0", "0", " ", "B", "C">>,
      <<"T", "h", "e", " ", "S", "h", "i", "n", "i", "n", "g">>,
      <<"s", "a", "y", " ", "\"", "A", "\"", " ", "o", "r", " ", "\"", "B", "\"">>,
      NoClearMovieTitleFound,
      <<" ">> \o NoClearMovieTitleFound,
      <<>> }

TitleAnswers ==
    { [kind |-> k, text |-> <<>>] : k \in {"key_missing", "timeout", "connection"} }
    \cup { [kind |-> k, text |-> t] : k \in {"api_error", "exception"},
                                      t \in {<<"4", "0", "1">>, <<>>} }
    \cup { [kind |-> "content", text |-> t] : t \in TitleContents }

UserInputs == { <<>>, <<"s", "h", "a", "r", "k">> }

NextTitle ==
    \E user_input \in UserInputs, answer \in TitleAnswers :
        GetAiSuggestionForAddMovieTemplate(user_input, answer)

SpecTitle == Init /\ [][NextTitle]_vars

----------------------------------------------------------------------------
(* POST /api/users/<user_id>/movies.  A JSON value of the body is a number *)
(* or a text; the route hands the fields to add_movie by keyword.          *)

JsonNum(n) == [kind |-> "num", n |-> n, text |-> <<>>]

JsonStr(s) == [kind |-> "str", n |-> 0, text |-> s]

DigitVal(c) ==
    CASE c = "0" -> 0 [] c = "1" -> 1 [] c = "2" -> 2 [] c = "3" -> 3
      [] c = "4" -> 4 [] c = "5" -> 5 [] c = "6" -> 6 [] c = "7" -> 7
      [] c = "8" -> 8 [] c = "9" -> 9

RECURSIVE DecimalOf(_)
DecimalOf(s) == IF Len(s) = 0 THEN 0
                ELSE 10 * DecimalOf(SubSeq(s, 1, Len(s) - 1)) + DigitVal(s[Len(s)])

\* int(v) and float(v) of a JSON value; None stands for ValueError.
\* Ratings are kept in hundredths.
IntOf(v) ==
    IF v.kind = "num" THEN Some(v.n)
    ELSE LET s == Strip(v.text)
         IN IF Len(s) > 0 /\ \A i \in DOMAIN s : s[i] \in Digits
            THEN Some(DecimalOf(s)) ELSE None

FloatOf(v) ==
    IF v.kind = "num" THEN Some(v.n)
    ELSE LET s == Strip(v.text)
         IN IF Len(s) > 0 /\ \A i \in DOMAIN s : s[i] \in Digits
            THEN Some(100 * DecimalOf(s)) ELSE None

JsonTruthy(o) ==
    ~IsNone(o) /\ (IF Val(o).kind = "num" THEN Val(o).n # 0 ELSE Len(Val(o).text) > 0)

\* the parameters of SQLiteDataManager.add_movie, and those without a default
AddMovieParameters ==
    {"user_id", "title", "director", "year", "rating", "poster_url", "plot",
     "runtime", "awards", "languages", "genre", "actors", "writer", "country",
     "metascore", "rated", "imdb_id", "omdb_rating_for_community"}

AddMovieRequired == {"user_id", "title", "director", "year", "rating"}

\* the keywords add_movie_api passes
AddMovieApiKeywords ==
    {"user_id", "title", "director", "year", "user_specific_rating", "poster_url",
     "imdb_id", "plot", "runtime", "awards", "languages", "genre", "actors",
     "writer", "country", "metascore", "rated", "omdb_rating_for_community"}

\* the names the route reads from the returned object, and those a Movie has
ReadFromResult == {"movie", "id"}

MovieAttributes ==
    {"id", "title", "original_title", "director", "writer", "actors", "year",
     "runtime", "genre", "plot", "language", "country", "awards", "poster_url",
     "community_rating", "community_rating_count", "imdb_rating", "imdb_votes",
     "imdb_id", "metascore", "rated_omdb", "initial_omdb_rating", "users",
     "comments"}

\* a call binds when every keyword names a parameter and no required
\* parameter is left out; otherwise Python raises TypeError
Binds(keywords, parameters, required) ==
    keywords \subseteq parameters /\ required \subseteq keywords

ApiResponse(ms, ums, status, movie_id) ==
    [movies |-> ms, user_movies |-> ums, status |-> status, movie_id |-> movie_id,
     capped |-> FALSE]

AddMovieApi(us, ms, ums, user_id, data, pick) ==
    LET title == Get(data, "title", None)
        year_str == Get(data, "year", None)
        rating_str == Get(data, "rating", None)
        year == IF JsonTruthy(year_str) THEN IntOf(Val(year_str)) ELSE None
        rating == IF IsNone(rating_str) THEN None ELSE FloatOf(Val(rating_str))
        inp == AddMovieInput(user_id, Val(title).text, Get(data, "director", None),
                             year, rating, Get(data, "imdb_id", None))
        res == AddMovie(us, ms, ums, inp, pick, "none")
    IN IF user_id \notin DOMAIN us THEN ApiResponse(ms, ums, 404, 0)
       ELSE IF ~JsonTruthy(title) THEN ApiResponse(ms, ums, 400, 0)
       ELSE IF JsonTruthy(year_str) /\ IsNone(year) THEN ApiResponse(ms, ums, 400, 0)
       ELSE IF ~IsNone(rating_str) /\ IsNone(rating) THEN ApiResponse(ms, ums, 400, 0)
       ELSE IF ~IsNone(rating) /\ ~(0 <= Val(rating) /\ Val(rating) <= 500)
       THEN ApiResponse(ms, ums, 400, 0)
       \* handle_api_error answers any exception with 500
       ELSE IF ~Binds(AddMovieApiKeywords, AddMovieParameters, AddMovieRequired)
       THEN ApiResponse(ms, ums, 500, 0)
       ELSE IF res.capped THEN [ApiResponse(ms, ums, 409, 0) EXCEPT !.capped = TRUE]
       ELSE IF res.ret.ok /\ ~(ReadFromResult \subseteq MovieAttributes)
       THEN ApiResponse(res.movies, res.user_movies, 500, 0)
       ELSE IF res.ret.ok
       THEN ApiResponse(res.movies, res.user_movies, 201, Val(res.ret.movie))
       ELSE ApiResponse(res.movies, res.user_movies, 409, 0)

ApiTitles == {None, Some(JsonStr(<<>>)), Some(JsonStr(<<"J", " ">>))}

ApiYears == {None, Some(JsonStr(<<"1", "9", "9", "9">>)), Some(JsonNum(1999)),
             Some(JsonStr(<<"x">>))}

ApiRatings == {None, Some(JsonNum(400)), Some(JsonStr(<<"4">>)), Some(JsonStr(<<"x">>)),
               Some(JsonNum(600))}

ApiAddMovieBodies ==
    { [title |-> t, year |-> y, rating |-> r, director |-> Some(<<"D">>),
       imdb_id |-> i] :
        t \in ApiTitles, y \in ApiYears, r \in ApiRatings, i \in {None, Some("tt1")} }

\* the record the title-and-year lookup of add_movie finds first
ApiPicks(ms, data) ==
    IF JsonTruthy(data.title) /\ ~(JsonTruthy(data.year) /\ IsNone(IntOf(Val(data.year))))
    THEN FirstChoices(TitleYearMatches(ms, Strip(Val(data.title).text),
             IF JsonTruthy(data.year) THEN IntOf(Val(data.year)) ELSE None))
    ELSE {0}

AddMovieApiCall(user_id, data) ==
    \E pick \in {0} \cup MovieIds :
        LET res == AddMovieApi(users, movies, user_movies, user_id, data, pick)
        IN /\ pick \in ApiPicks(movies, data)
           /\ ~res.capped
           /\ movies' = res.movies
           /\ user_movies' = res.user_movies
           /\ last' = [op |-> "add_movie_api", ok |-> res.status = 201]
           /\ UNCHANGED <<users, others>>

NextRest ==
    \/ \E name \in UserNames : AddUserCall(name)
    \/ \E inp \in WebAddMovieInputs : AddMovieCall(inp, "none")
    \/ \E u \in UserIds, data \in ApiAddMovieBodies : AddMovieApiCall(u, data)
    \/ \E m \in MovieIds : DeleteMovieCall(m)

SpecRest == Init /\ [][NextRest]_vars

----------------------------------------------------------------------------
(* cache_response around GET /api/movies/<movie_id>.  The cache is a       *)
(* dictionary of the process, keyed by the name of the view and its        *)
(* arguments; nothing removes or refreshes an entry but a later call of    *)
(* the same key.  handle_api_error is the outer decorator.                 *)

CACHE_TIMEOUT == 300

\* the clock advances in steps of Tick seconds up to MaxTime
Tick == 100

MaxTime == 600

\* cache_key of the call f(movie_id = movie_id)
CacheKey(name, movie_id) == <<name, movie_id>>

\* the response of get_movie
GetMovie(ms, cs, movie_id) ==
    IF movie_id \notin DOMAIN ms
    THEN [status |-> 404, movie |-> None, comments |-> {}]
    ELSE [status |-> 200, movie |-> Some(ms[movie_id]),
          comments |-> {c \in DOMAIN cs : cs[c].movie_id = movie_id}]

\* the response of handle_api_error for an exception
InternalServerError == [status |-> 500, movie |-> None, comments |-> {}]

\* A faulty variant: an entry as old as the timeout is still served.
IsFresh_Inclusive(entry, time, timeout) == time - entry.timestamp <= timeout

IsFresh(entry, time, timeout) == time - entry.timestamp < timeout

\* the decorated get_movie: the response, the cache after the call, and
\* whether the view function ran; raises tells that the view function,
\* if it runs, raises
CachedGetMovie(c, time, ms, cs, movie_id, raises) ==
    LET cache_key == CacheKey("get_movie", movie_id)
        response == GetMovie(ms, cs, movie_id)
    IN IF cache_key \in DOMAIN c /\ IsFresh(c[cache_key], time, CACHE_TIMEOUT)
       THEN [response |-> c[cache_key].response, cache |-> c, ran |-> FALSE]
       ELSE IF raises
       THEN [response |-> InternalServerError, cache |-> c, ran |-> TRUE]
       ELSE [response |-> response,
             cache |-> [k \in DOMAIN c \cup {cache_key} |->
                           IF k = cache_key
                           THEN [timestamp |-> time, response |-> response]
                           ELSE c[k]],
             ran |-> TRUE]

GetMovieApi(movie_id, raises) ==
    LET res == CachedGetMovie(cache, now, movies, comments, movie_id, raises)
    IN /\ cache' = res.cache
       /\ last' = [op |-> IF res.ran THEN "get_movie" ELSE "get_movie_cached",
                   ok |-> res.response.status = 200]
       /\ UNCHANGED <<users, movies, user_movies, reqs, session_user, comments,
                      ai_history, ai_title, now>>

TimePasses ==
    /\ now + Tick <= MaxTime
    /\ now' = now + Tick
    /\ UNCHANGED <<users, movies, user_movies, last, reqs, session_user, comments,
                   ai_history, ai_title, cache>>

NextCache ==
    \/ \E data \in MovieDataInputs : AddMovieGloballyCall(data, "none")
    \/ \E m \in MovieIds : DeleteMovieCall(m)
    \/ \E m \in MovieIds, raises \in BOOLEAN : GetMovieApi(m, raises)
    \/ TimePasses

SpecCache == Init /\ [][NextCache]_vars

----------------------------------------------------------------------------
(* Properties of the ledger and the aggregate                              *)

Abs(x) == IF x < 0 THEN 0 - x ELSE x

\* the rows of movie m that carry a rating, as <<user, position>>
RatedEntries(ums, m) ==
    {e \in UNION {{<<u, i>> : i \in DOMAIN ums[<<u, m>>]} : u \in UserIds} :
        ~IsNone(ums[<<e[1], m>>][e[2]])}

RECURSIVE SumOfEntries(_, _, _)
SumOfEntries(ums, m, E) ==
    IF E = {} THEN 0
    ELSE LET e == CHOOSE x \in E : TRUE
         IN Val(ums[<<e[1], m>>][e[2]]) + SumOfEntries(ums, m, E \ {e})

HasSeed(ms, m) == ~IsNone(ms[m].initial_omdb_rating)

VoteCount(ms, ums, m) ==
    Cardinality(RatedEntries(ums, m)) + (IF HasSeed(ms, m) THEN 1 ELSE 0)

VoteTotal(ms, ums, m) ==
    SumOfEntries(ums, m, RatedEntries(ums, m))
    + (IF HasSeed(ms, m) THEN Val(ms[m].initial_omdb_rating) ELSE 0)

\* v is total / count to the nearest hundredth
IsMeanToTwoDecimals(v, total, count) == 2 * Abs(count * v - total) <= count

\* the stored aggregate of m is the one its seed and personal ratings give
AggregateConsistent(ms, ums, m) ==
    /\ ms[m].community_rating_count = VoteCount(ms, ums, m)
    /\ IF VoteCount(ms, ums, m) = 0
       THEN IsNone(ms[m].community_rating)
       ELSE /\ ~IsNone(ms[m].community_rating)
            /\ IsMeanToTwoDecimals(Val(ms[m].community_rating),
                                   VoteTotal(ms, ums, m), VoteCount(ms, ums, m))

Aggregate(ms, m) == <<ms[m].community_rating, ms[m].community_rating_count>>

\* C1: after every completed movie creation and ledger mutation, every
\* catalog movie's vote count is the number of its non-null personal ratings
\* plus one for a seed, and its community rating is their mean to two
\* decimals, or null when there is no vote.
C1_AggregateMatchesLedger ==
    \A m \in DOMAIN movies : AggregateConsistent(movies, user_movies, m)

\* C1 witness: a removal has just emptied the votes of a movie without a
\* seed (null, 0) while a seeded movie carries two personal ratings whose
\* mean with the seed needs rounding.
C1_Witness ==
    /\ last = [op |-> "delete_movie_from_user_list", ok |-> TRUE]
    /\ \E m \in DOMAIN movies :
         /\ ~HasSeed(movies, m)
         /\ RatedEntries(user_movies, m) = {}
         /\ Aggregate(movies, m) = <<None, 0>>
    /\ \E m \in DOMAIN movies :
         /\ HasSeed(movies, m)
         /\ Cardinality(RatedEntries(user_movies, m)) = 2
         /\ Aggregate(movies, m) = <<Some(317), 3>>

\* the entry of user u on movie m is the single row <<rating>>
HoldsEntry(ums, u, m, rating) == ums[<<u, m>>] = <<rating>>

\* C2: when U's add_movie with external id X and rating 4.0 resolves to the
\* movie of X, which has no seed and no other rating, the aggregate is
\* (4.0, 1); the add_movie of another user V
\* with the same X and 2.0 makes no second movie, links V to the same row
\* and gives (3.0, 2); V's delete_movie_from_user_list gives (4.0, 1) again.
C2_SharedMovieScenario ==
    \A U \in DOMAIN users, V \in DOMAIN users, X \in ImdbIds \ {None},
       yV \in {None, Some(1999)} :
      \A pick \in FirstChoices(TitleYearMatches(movies, <<"J">>, Some(1999))) :
        LET first == AddMovie(users, movies, user_movies,
                              AddMovieInput(U, <<"J", " ">>, Some(<<"D">>), Some(1999), Some(400), X),
                              pick, "none")
            m == Val(first.ret.movie)
        IN (/\ U # V
            /\ ~first.capped
            /\ first.ret.ok
            /\ first.movies[m].imdb_id = X
            /\ ~HasSeed(first.movies, m)
            /\ RatedEntries(first.user_movies, m) = {<<U, 1>>})
           => /\ Aggregate(first.movies, m) = <<Some(400), 1>>
              /\ \A pick2 \in FirstChoices(TitleYearMatches(first.movies, <<"J">>, yV)) :
                   LET second == AddMovie(users, first.movies, first.user_movies,
                                          AddMovieInput(V, <<"J", " ">>, Some(<<"D">>), yV, Some(200), X),
                                          pick2, "none")
                       third == DeleteMovieFromUserList(second.movies, second.user_movies,
                                                        V, m, "none")
                   IN /\ second.ret.ok
                      /\ second.ret.movie = Some(m)
                      /\ ~second.ret.created
                      /\ DOMAIN second.movies = DOMAIN first.movies
                      /\ HoldsEntry(second.user_movies, V, m, Some(200))
                      /\ HoldsEntry(second.user_movies, U, m, Some(400))
                      /\ Aggregate(second.movies, m) = <<Some(300), 2>>
                      /\ third.ok
                      /\ third.user_movies[<<V, m>>] = <<>>
                      /\ Aggregate(third.movies, m) = <<Some(400), 1>>

\* C2 witness: V's add_movie has just joined U on the one catalog movie,
\* which has an external id and no seed: 4.0 and 2.0 give (3.0, 2).
C2_Witness ==
    /\ last = [op |-> "add_movie", ok |-> TRUE]
    /\ \E m \in DOMAIN movies :
         /\ DOMAIN movies = {m}
         /\ Truthy(movies[m].imdb_id)
         /\ ~HasSeed(movies, m)
         /\ HoldsEntry(user_movies, 1, m, Some(400))
         /\ HoldsEntry(user_movies, 2, m, Some(200))
         /\ Aggregate(movies, m) = <<Some(300), 2>>

----------------------------------------------------------------------------
(* Properties of the resolver                                              *)

\* requests to resolve external id X: two titles, two years, with metadata
\* that differs from one request to the other
ResolveRequests(X) ==
    { [title |-> t, year |-> y, imdb_id |-> X,
       omdb_data |-> Some([Title |-> Some(t),
                           Director |-> Some(IF t = <<"J">> THEN <<"D">> ELSE <<"E">>),
                           Year |-> Some(YearStr(IF IsNone(y) THEN 2001 ELSE Val(y))),
                           imdbID |-> X,
                           imdbRating |-> IF IsNone(y) THEN Some(NumStr(90))
                                          ELSE ProviderRating(X)])] :
        t \in {<<"J">>, <<"K">>}, y \in {None, Some(1999)} }

FirstPicks(ms, req) == FirstChoices(TitleYearMatches(ms, req.title, req.year))

\* one resolution of a request, through the resolver or through
\* add_movie_globally
Resolve(via, ms, ums, req, pick) ==
    IF via = "internal"
    THEN GetOrCreateMovieInternal(ms, ums, req.title, req.year, req.imdb_id,
                                  req.omdb_data, pick, "none")
    ELSE AddMovieGlobally(ms, ums, Val(req.omdb_data), "none")

Vias == {"internal", "globally"}

\* C3: once a resolution of external id X has returned the record of X,
\* another resolution of X, through _get_or_create_movie_internal or
\* add_movie_globally and with any title, year or metadata, returns that
\* record with created = false, creates no movie and changes no field of any
\* record; no two catalog movies carry the same external id.
C3_SameExternalIdResolvesOnce ==
    \A X \in ImdbIds \ {None} :
      /\ Cardinality(MoviesByImdbId(movies, X)) <= 1
      /\ \A a \in ResolveRequests(X), b \in ResolveRequests(X),
            viaA \in Vias, viaB \in Vias :
           \A pickA \in FirstPicks(movies, a) :
             LET first == Resolve(viaA, movies, user_movies, a, pickA)
             IN (/\ ~first.capped
                 /\ ~IsNone(first.movie)
                 /\ first.movies[Val(first.movie)].imdb_id = X)
                => \A pickB \in FirstPicks(first.movies, b) :
                     LET second == Resolve(viaB, first.movies, user_movies, b, pickB)
                     IN /\ second.movie = first.movie
                        /\ ~second.created
                        /\ ~second.capped
                        /\ second.movies = first.movies
                        /\ Cardinality(MoviesByImdbId(second.movies, X)) = 1

\* C3 witness: add_movie_globally has just returned the only catalog movie,
\* known by its external id and already rated by a user, so it was made by
\* an earlier resolution.
C3_Witness ==
    /\ last = [op |-> "add_movie_globally", ok |-> TRUE]
    /\ \E m \in DOMAIN movies :
         /\ DOMAIN movies = {m}
         /\ movies[m].imdb_id = Some("tt2")
         /\ HasSeed(movies, m)
         /\ RatedEntries(user_movies, m) # {}

\* C4: when a movie without an external id is the title and year match of a
\* request that carries an external id no movie has, the resolver returns
\* that movie with created = false and the only change to the catalog is
\* the external id of that record.
C4_BackfillSetsOnlyExternalId ==
    \A m \in DOMAIN movies, X \in ImdbIds \ {None}, t \in {<<"J">>, <<"j">>} :
      (/\ ~Truthy(movies[m].imdb_id)
       /\ MoviesByImdbId(movies, X) = {}
       /\ m \in TitleYearMatches(movies, t, movies[m].year))
      => \A od \in {None} \cup {r.omdb_data : r \in ResolveRequests(X)} :
           LET got == GetOrCreateMovieInternal(movies, user_movies, t, movies[m].year,
                                               X, od, m, "none")
           IN /\ got.movie = Some(m)
              /\ ~got.created
              /\ DOMAIN got.movies = DOMAIN movies
              /\ got.movies = [movies EXCEPT ![m].imdb_id = X]

\* C4 witness: an add_movie with a null rating has just resolved to the
\* legacy record by title and year; the record now carries the request's
\* external id and is otherwise as it was.
C4_Witness ==
    /\ last = [op |-> "add_movie", ok |-> TRUE]
    /\ \E m \in DOMAIN movies :
         /\ movies[m] = [LegacyMovie EXCEPT !.imdb_id = Some("tt2")]
         /\ \E u \in UserIds : HoldsEntry(user_movies, u, m, None)

----------------------------------------------------------------------------
(* Properties of the ledger operations                                     *)

AddMoviePicks(ms, inp) == FirstChoices(TitleYearMatches(ms, Strip(inp.title), inp.year))

Unchanged(res) == res.movies = movies /\ res.user_movies = user_movies

\* C5: every (user, movie) pair has at most one membership entry, and an
\* add_movie that resolves to a movie the user already has an entry for
\* leaves one entry for the pair, with the supplied rating (null included),
\* and no other entry changed.
C5_OneEntryPerPair ==
    /\ \A p \in UserIds \X MovieIds : Len(user_movies[p]) <= 1
    /\ \A inp \in AddMovieInputs :
         \A pick \in AddMoviePicks(movies, inp) :
           LET res == AddMovie(users, movies, user_movies, inp, pick, "none")
               p == <<inp.user_id, Val(res.ret.movie)>>
           IN (~res.capped /\ res.ret.ok /\ Len(user_movies[p]) = 1)
              => /\ res.user_movies[p] = <<inp.rating>>
                 /\ \A q \in (UserIds \X MovieIds) \ {p} :
                      res.user_movies[q] = user_movies[q]

\* C5 witness: after an add_movie, a user holds an entry rated 4.0 on a
\* movie known by its external id, and the user's add_movie of that id with
\* a null rating leaves the entry with a null rating.
C5_Witness ==
    /\ last = [op |-> "add_movie", ok |-> TRUE]
    /\ \E u \in DOMAIN users, m \in DOMAIN movies :
         /\ HoldsEntry(user_movies, u, m, Some(400))
         /\ Truthy(movies[m].imdb_id)
         /\ LET res == AddMovie(users, movies, user_movies,
                                AddMovieInput(u, <<"J", " ">>, Some(<<"D">>), Some(1999),
                                              None, movies[m].imdb_id),
                                0, "none")
            IN res.ret.ok /\ HoldsEntry(res.user_movies, u, m, None)

InvalidTitles == { <<>>, <<" ">>, <<" ", " ">> }

InvalidYears == { Some(CurrentYear + 1), Some(CurrentYear + 50) }

InvalidRatings == { Some(0 - 50), Some(0 - 1), Some(501), Some(550) }

\* add_movie requests with at least one of title, year and rating invalid
InvalidAddMovieInputs ==
    { AddMovieInput(u, t, Some(<<"D">>), y, r, i) :
        u \in UserIds,
        t \in InvalidTitles \cup {<<"J", " ">>},
        y \in InvalidYears \cup {Some(1999)},
        r \in InvalidRatings \cup {Some(400)},
        i \in ImdbIds }
    \ { AddMovieInput(u, <<"J", " ">>, Some(<<"D">>), Some(1999), Some(400), i) :
          u \in UserIds, i \in ImdbIds }

\* C6: add_movie with an empty or blank title, a year after the current
\* year or a rating outside [0, 5], and update_user_rating_for_movie with a
\* non-null rating outside [0, 5], fail and leave the catalog, the ledger
\* and every aggregate as they were.
C6_InvalidInputRejected ==
    /\ \A inp \in InvalidAddMovieInputs :
         \A pick \in AddMoviePicks(movies, inp) :
           LET res == AddMovie(users, movies, user_movies, inp, pick, "none")
           IN ~res.ret.ok /\ IsNone(res.ret.movie) /\ ~res.capped /\ Unchanged(res)
    /\ \A u \in UserIds, m \in MovieIds, r \in InvalidRatings :
         LET res == UpdateUserRatingForMovie(movies, user_movies, u, m, r, "none")
         IN ~res.ok /\ Unchanged(res)

\* C6 witness: a failed update_user_rating_for_movie has left a rated entry
\* of a registered user, an update of that entry to 5.5 fails, and so does
\* the user's add_movie of the movie's external id dated next year.
C6_Witness ==
    /\ last = [op |-> "update_user_rating_for_movie", ok |-> FALSE]
    /\ \E u \in DOMAIN users, m \in DOMAIN movies :
         /\ HoldsEntry(user_movies, u, m, Some(400))
         /\ Truthy(movies[m].imdb_id)
         /\ ~UpdateUserRatingForMovie(movies, user_movies, u, m, Some(550), "none").ok
         /\ ~AddMovie(users, movies, user_movies,
                      AddMovieInput(u, <<"J", " ">>, Some(<<"D">>), Some(CurrentYear + 1),
                                    Some(200), movies[m].imdb_id),
                      0, "none").ret.ok

\* C7: add_movie for an unregistered user, add_existing_movie_to_user_list
\* for an unregistered user or a movie not in the catalog, and
\* update_user_rating_for_movie for a pair without an entry fail and leave
\* the catalog and the ledger as they were.
C7_AbsentReferenceRejected ==
    /\ \A inp \in AddMovieInputs :
         inp.user_id \notin DOMAIN users
         => \A pick \in AddMoviePicks(movies, inp) :
              LET res == AddMovie(users, movies, user_movies, inp, pick, "none")
              IN ~res.ret.ok /\ IsNone(res.ret.movie) /\ ~res.capped /\ Unchanged(res)
    /\ \A u \in UserIds, m \in MovieIds :
         (u \notin DOMAIN users \/ m \notin DOMAIN movies)
         => LET res == AddExistingMovieToUserList(users, movies, user_movies, u, m, "none")
            IN ~res.ok /\ Unchanged(res)
    /\ \A u \in UserIds, m \in MovieIds, r \in Ratings :
         Len(user_movies[<<u, m>>]) = 0
         => LET res == UpdateUserRatingForMovie(movies, user_movies, u, m, r, "none")
            IN ~res.ok /\ Unchanged(res)

\* C7 witness: add_existing_movie_to_user_list has just failed where user 2
\* is not registered and the catalog has one movie of two, so that a user, a
\* movie and an entry are absent while another entry is present.
C7_Witness ==
    /\ last = [op |-> "add_existing_movie_to_user_list", ok |-> FALSE]
    /\ DOMAIN users = {1}
    /\ DOMAIN movies = {1}
    /\ HoldsEntry(user_movies, 1, 1, Some(400))
    /\ ~AddExistingMovieToUserList(users, movies, user_movies, 2, 1, "none").ok
    /\ ~AddExistingMovieToUserList(users, movies, user_movies, 1, 2, "none").ok

\* the columns of a movie that the aggregate recomputation does not write
Metadata(ms, m) == [ms[m] EXCEPT !.community_rating = None, !.community_rating_count = 0]

\* C8: delete_movie_from_user_list(u, m) on an existing entry returns true,
\* removes that entry only and leaves m's aggregate recomputed; without an
\* entry it returns false and changes nothing; so a second call in a row
\* returns false and leaves the state of the first.
C8_DeleteFromListTwice ==
    \A u \in UserIds, m \in MovieIds :
      LET once == DeleteMovieFromUserList(movies, user_movies, u, m, "none")
          twice == DeleteMovieFromUserList(once.movies, once.user_movies, u, m, "none")
      IN IF Len(user_movies[<<u, m>>]) > 0
         THEN /\ once.ok
              /\ once.user_movies = [user_movies EXCEPT ![<<u, m>>] = <<>>]
              /\ DOMAIN once.movies = DOMAIN movies
              /\ \A n \in DOMAIN movies :
                   /\ Metadata(once.movies, n) = Metadata(movies, n)
                   /\ n # m => once.movies[n] = movies[n]
              /\ AggregateConsistent(once.movies, once.user_movies, m)
              /\ ~twice.ok
              /\ twice.movies = once.movies
              /\ twice.user_movies = once.user_movies
         ELSE ~once.ok /\ Unchanged(once)

\* C8 witness: a removal has just succeeded; the movie it could have been on
\* still has a vote, a pair without an entry refuses a removal, and another
\* pair's rated entry can be removed, which changes the aggregate.
C8_Witness ==
    /\ last = [op |-> "delete_movie_from_user_list", ok |-> TRUE]
    /\ \E u \in DOMAIN users, v \in DOMAIN users, m \in DOMAIN movies :
         /\ user_movies[<<u, m>>] = <<>>
         /\ ~DeleteMovieFromUserList(movies, user_movies, u, m, "none").ok
         /\ HoldsEntry(user_movies, v, m, Some(200))
         /\ Aggregate(movies, m) = <<Some(275), 2>>
         /\ Aggregate(DeleteMovieFromUserList(movies, user_movies, v, m, "none").movies, m)
              = <<Some(350), 1>>

\* C9: add_existing_movie_to_user_list for a pair that has an entry returns
\* true and changes neither the entry's rating, nor the number of entries,
\* nor any movie's aggregate.
C9_ReAddIsNoChange ==
    \A u \in DOMAIN users, m \in DOMAIN movies :
      Len(user_movies[<<u, m>>]) > 0
      => LET res == AddExistingMovieToUserList(users, movies, user_movies, u, m, "none")
         IN res.ok /\ Unchanged(res)

\* C9 witness: add_existing_movie_to_user_list has just succeeded in a state
\* where every entry carries a rating, so the call met an existing
\* membership: a new membership would have a null rating.
C9_Witness ==
    /\ last = [op |-> "add_existing_movie_to_user_list", ok |-> TRUE]
    /\ \E p \in UserIds \X MovieIds : user_movies[p] = <<Some(400)>>
    /\ \A p \in UserIds \X MovieIds :
         \A k \in DOMAIN user_movies[p] : ~IsNone(user_movies[p][k])

----------------------------------------------------------------------------
(* Atomicity of add_movie                                                  *)

\* C10: add_movie is all or nothing: whichever commit fails, the call
\* either leaves the catalog and the ledger as they were, or leaves them as
\* the call does on a store that does not fail.
C10_AddMovieAllOrNothing ==
    \A inp \in FaultedAddMovieInputs, fault \in Faults :
      \A pick \in AddMoviePicks(movies, inp) :
        LET res == AddMovie(users, movies, user_movies, inp, pick, fault)
            all == AddMovie(users, movies, user_movies, inp, pick, "none")
        IN ~res.capped
           => \/ Unchanged(res)
              \/ res.movies = all.movies /\ res.user_movies = all.user_movies

----------------------------------------------------------------------------
(* Concurrent rating changes                                               *)

NoRequestInFlight == \A i \in ReqIds : reqs[i].pc = "idle"

\* C11: once the concurrent requests that changed ratings have all
\* completed, every movie's stored community rating and vote count are the
\* ones recomputed from its seed and the personal ratings now stored.
C11_NoLostAggregateUpdate ==
    NoRequestInFlight
    => \A m \in DOMAIN movies : AggregateConsistent(movies, user_movies, m)

----------------------------------------------------------------------------
(* Authorization of the routes                                             *)

\* an entry of user u is removed, or its rating is changed, by the step
EntryRemovedOrRerated(u) ==
    \E m \in MovieIds :
        IF Len(user_movies[<<u, m>>]) = 0 THEN FALSE
        ELSE IF Len(user_movies'[<<u, m>>]) = 0 THEN TRUE
        ELSE user_movies'[<<u, m>>][1] # user_movies[<<u, m>>][1]

\* C12: a request removes an entry of user U, or changes its rating, only
\* when U is the user of the request's session.
C12_OnlyOwnEntries ==
    [][\A u \in UserIds : EntryRemovedOrRerated(u) => session_user = u]_vars

----------------------------------------------------------------------------
(* The global deletion and referential integrity                           *)

\* no entry and no comment of the tables refers to movie m
NothingRefersTo(ums, cs, m) ==
    /\ \A u \in UserIds : ums[<<u, m>>] = <<>>
    /\ \A c \in DOMAIN cs : cs[c].movie_id # m

\* C13: delete_movie(m) returns true exactly for a catalog movie, and then
\* m is gone and no entry and no comment refers to it; in every state each
\* entry and each comment refers to a registered user and a catalog movie.
C13_DeleteMovieCascades ==
    /\ \A m \in MovieIds :
         LET res == DeleteMovie(movies, user_movies, comments, m)
         IN /\ res.ok = (m \in DOMAIN movies)
            /\ res.ok => /\ m \notin DOMAIN res.movies
                         /\ NothingRefersTo(res.user_movies, res.comments, m)
    /\ \A u \in UserIds, m \in MovieIds :
         user_movies[<<u, m>>] # <<>> => u \in DOMAIN users /\ m \in DOMAIN movies
    /\ \A c \in DOMAIN comments :
         comments[c].user_id \in DOMAIN users /\ comments[c].movie_id \in DOMAIN movies

\* C13 witness: delete_movie has just removed movie 1 while movie 2, with an
\* entry and a comment, stays, and movie 2 in turn can be deleted with them.
C13_Witness ==
    /\ last = [op |-> "delete_movie", ok |-> TRUE]
    /\ DOMAIN movies = {2}
    /\ \E u \in UserIds : user_movies[<<u, 2>>] # <<>>
    /\ \E c \in DOMAIN comments : comments[c].movie_id = 2
    /\ DeleteMovie(movies, user_movies, comments, 2).comments = <<>>

----------------------------------------------------------------------------
(* Movies created from a metadata record                                   *)

\* C14: every catalog movie has a non-empty title and a year that is absent
\* or not greater than the current year, whichever path created it.
C14_CatalogMoviesWellFormed ==
    \A m \in DOMAIN movies :
        /\ Len(movies[m].title) > 0
        /\ IF IsNone(movies[m].year) THEN TRUE ELSE Val(movies[m].year) <= CurrentYear

\* the movie that add_movie_globally creates from data, in a set: empty when
\* the call creates none
CreatedFrom(data) ==
    LET res == AddMovieGlobally(movies, user_movies, data, "none")
    IN IF res.created THEN {res.movies[Val(res.movie)]} ELSE {}

\* C15: a movie created from a record with rating r (tenths of the 0-10
\* scale) has as seed a half point of the 0-5 scale nearest to r/2; a record
\* with no rating or the placeholder gives no seed.
C15_SeedIsNearestHalfPoint ==
    \A data \in ApiMovieDataInputs : \A movie \in CreatedFrom(data) :
        IF IsNone(data.imdbRating) THEN IsNone(movie.initial_omdb_rating)
        ELSE IF Val(data.imdbRating).kind # "num" THEN IsNone(movie.initial_omdb_rating)
        ELSE /\ ~IsNone(movie.initial_omdb_rating)
             /\ Val(movie.initial_omdb_rating) % 50 = 0
             /\ Abs(Val(movie.initial_omdb_rating) - 5 * Val(data.imdbRating).tenths) <= 25

\* C16: a movie created from a record whose director is the placeholder
\* "N/A" has no director stored.  (director stands for the eleven text
\* fields that the parser treats alike.)
C16_PlaceholderStoredAsAbsent ==
    \A data \in ApiMovieDataInputs : \A movie \in CreatedFrom(data) :
        data.Director = Some(NA) => IsNone(movie.director)

----------------------------------------------------------------------------
(* The history of displayed titles                                         *)

\* lists of displayed titles: those the answers of the model give for a
\* movie titled "j", and lists of one to three titles, new and known
DisplayedInputs ==
    { Displayed(AskOpenrouterForMovies(answer).titles, <<"j">>) : answer \in AiAnswers }
    \cup { << <<"v">> >>,
           << <<"v">>, <<"V", " ">> >>,
           << <<"w">>, Jaws, <<"v">> >>,
           << <<"A">>, <<"w">> >> }

\* the last n elements of s, all of s when it has fewer
LastOf(s, n) == IF Len(s) > n THEN SubSeq(s, Len(s) - n + 1, Len(s)) ELSE s

\* C17: the history never holds more than 20 titles, and a round that adds
\* titles stores the last 20 of the history followed by the added titles.
C17_HistoryKeepsLastTwenty ==
    /\ Len(ai_history) <= 20
    /\ \A displayed \in DisplayedInputs :
         LET res == RecordDisplayed(ai_history, displayed)
             combined == AppendNew(ai_history, displayed)
         IN /\ Len(res.history) <= 20
            /\ res.written => res.history = LastOf(combined, 20)
            /\ \A i \in 1 .. Len(ai_history) : combined[i] = ai_history[i]

\* C17 witness: a round has stored a history of 20 titles, and a further
\* round with a new title evicts the oldest one.
C17_Witness ==
    /\ last = [op |-> "ai_recommendations_recorded", ok |-> TRUE]
    /\ Len(ai_history) = 20
    /\ \E displayed \in DisplayedInputs :
         LET res == RecordDisplayed(ai_history, displayed)
         IN res.written /\ Len(res.history) = 20 /\ res.history[1] = ai_history[2]

NoTwoAlike(history) ==
    \A i, k \in DOMAIN history : i # k => Key(history[i]) # Key(history[k])

\* C18: no two titles of the history are equal after trimming and ignoring
\* case, before and after any round; recording A, B and then a, C gives
\* A, B, C.
C18_NoTwoTitlesAlike ==
    /\ NoTwoAlike(ai_history)
    /\ \A displayed \in DisplayedInputs :
         NoTwoAlike(RecordDisplayed(ai_history, displayed).history)
    /\ RecordDisplayed(RecordDisplayed(<<>>, << <<"A">>, <<"B">> >>).history,
                       << <<"a">>, <<"C">> >>).history
         = << <<"A">>, <<"B">>, <<"C">> >>

\* C18 witness: the history holds "A", and a round that displays "a" adds
\* no title.
C18_Witness ==
    /\ last.op = "ai_recommendations_recorded"
    /\ \E i \in DOMAIN ai_history : ai_history[i] = <<"A">>
    /\ \E displayed \in DisplayedInputs :
         /\ \E i \in DOMAIN displayed : displayed[i] = <<"a">>
         /\ RecordDisplayed(ai_history, displayed).history = ai_history

AllKnown(history, displayed) ==
    /\ Len(displayed) > 0
    /\ \A i \in DOMAIN displayed : Known(history, displayed[i])

\* C19: a round whose displayed titles are all in the history does not
\* assign the session history, which stays as it was.
C19_NoWriteWithoutNewTitle ==
    \A displayed \in DisplayedInputs :
        AllKnown(ai_history, displayed) =>
            RecordDisplayed(ai_history, displayed) = [history |-> ai_history, written |-> FALSE]

\* C19 witness: a round has displayed titles and assigned nothing, the
\* history being full.
C19_Witness ==
    /\ last = [op |-> "ai_recommendations", ok |-> TRUE]
    /\ Len(ai_history) = 20
    /\ \E displayed \in DisplayedInputs : AllKnown(ai_history, displayed)

----------------------------------------------------------------------------
(* The list cleaner                                                        *)

\* the keys of the titles of s
Keys(s) == {Key(s[i]) : i \in DOMAIN s}

FirstAt(s, title) == Min({p \in DOMAIN s : Key(s[p]) = Key(title)})

----------------------------------------------------------------------------
(* The interpretation of one title                                         *)

\* the request recorded in ai_title was made with an input and got a text
AnsweredWithText == Len(ai_title.user_input) > 0 /\ ai_title.answer.kind = "content"

\* the pairs <<p, q>> of positions of s that hold double quotes with at
\* least one character and no double quote between them
QuotedSpans(s) ==
    {pq \in (DOMAIN s) \X (DOMAIN s) :
        /\ pq[1] + 1 < pq[2]
        /\ s[pq[1]] = Quote /\ s[pq[2]] = Quote
        /\ \A k \in (pq[1] + 1) .. (pq[2] - 1) : s[k] # Quote}

ErrorWords == {<<"e", "r", "r", "o", "r">>, <<"n", "o", "t", " ", "c", "o", "n", "f", "i", "g", "u", "r", "e", "d">>, <<"t", "i", "m", "e", "d", " ", "o", "u", "t">>}

NamesAnError(s) == \E w \in ErrorWords : Contains(Lower(s), w)

\* what the reply is for a cleaned candidate: the marker for an empty one,
\* for the service's "no title" text and for an error message
ReplyFor(candidate) ==
    IF Len(candidate) = 0 \/ candidate = NoClearMovieTitleFound \/ NamesAnError(candidate)
    THEN NO_CLEAR_MOVIE_TITLE_MARKER
    ELSE candidate

\* C21: when the service's text holds a double-quoted substring, the reply
\* is made from the first one (trimmed, without a trailing period), so that
\* 1. "Jaws" gives Jaws; the text NO_CLEAR_MOVIE_TITLE_FOUND gives the
\* marker, and so does a text that is empty after cleaning.
C21_FirstQuotedOrMarker ==
    AnsweredWithText =>
        LET text == ai_title.answer.text
        IN /\ text # NoClearMovieTitleFound =>
                \A pq \in QuotedSpans(text) :
                    (\A other \in QuotedSpans(text) : pq[1] <= other[1]) =>
                        ai_title.title
                          = ReplyFor(WithoutTrailingPeriod(Strip(SubSeq(text, pq[1] + 1, pq[2] - 1))))
           /\ text = <<"1", ".", " ", "\"", "J", "a", "w", "s", "\"">> => ai_title.title = Jaws
           /\ text = NoClearMovieTitleFound => ai_title.title = NO_CLEAR_MOVIE_TITLE_MARKER
           /\ Len(CleanAiSingleMovieTitleResponse(text)) = 0 =>
                ai_title.title = NO_CLEAR_MOVIE_TITLE_MARKER

\* C21 witness: the service answered 1. "Jaws" and the reply is Jaws.
C21_Witness ==
    /\ AnsweredWithText
    /\ ai_title.answer.text = <<"1", ".", " ", "\"", "J", "a", "w", "s", "\"">>
    /\ ai_title.title = Jaws

\* C22: the reply is the marker for every failure of the service (no key,
\* timeout, transport or API error, exception, empty content) and for every
\* cleaned text that contains "error", "not configured" or "timed out" in
\* any case.
C22_NoFailureMessageAsTitle ==
    Len(ai_title.user_input) > 0 =>
        /\ ai_title.answer.kind \in {"key_missing", "timeout", "connection", "api_error",
                                     "exception"} =>
             ai_title.title = NO_CLEAR_MOVIE_TITLE_MARKER
        /\ ai_title.answer.kind = "content" =>
             /\ Len(ai_title.answer.text) = 0 => ai_title.title = NO_CLEAR_MOVIE_TITLE_MARKER
             /\ NamesAnError(CleanAiSingleMovieTitleResponse(ai_title.answer.text)) =>
                  ai_title.title = NO_CLEAR_MOVIE_TITLE_MARKER

\* C22 witness: the service answered with a title in quotes that contains
\* "error", and the reply is the marker.
C22_Witness ==
    /\ AnsweredWithText
    /\ ai_title.answer.text = <<"\"", "T", "e", "r", "r", "o", "r", "\"">>
    /\ ai_title.title = NO_CLEAR_MOVIE_TITLE_MARKER

\* a title with no surrounding whitespace, no quote character, no leading
\* list marker or numbering, no trailing period and no explanatory phrase
\* followed by a colon
AlreadyClean(t) ==
    /\ Len(t) > 0
    /\ Strip(t) = t
    /\ \A i \in DOMAIN t : t[i] \notin {Quote, "'"}
    /\ t[1] \notin ListMarks
    /\ t[1] \notin Digits
    /\ t[Len(t)] # "."
    /\ \A k \in DOMAIN TextPrefixes : ~StartsWith(Lower(t), TextPrefixes[k] \o <<":">>)

\* C30: single-title cleaning returns an already clean title as it is.
C30_CleanTitleUnchanged ==
    (ai_title.answer.kind = "content" /\ AlreadyClean(ai_title.answer.text)) =>
        CleanAiSingleMovieTitleResponse(ai_title.answer.text) = ai_title.answer.text

----------------------------------------------------------------------------
(* The writers of the aggregate                                            *)

RecomputingOps ==
    {"add_movie", "update_user_rating_for_movie", "add_existing_movie_to_user_list",
     "delete_movie_from_user_list"}

\* the aggregate of every movie of the state is the same in the tables ms
SameAggregates(ms) ==
    \A m \in DOMAIN movies : m \in DOMAIN ms /\ Aggregate(ms, m) = Aggregate(movies, m)

\* C23: a step changes the community rating or the vote count of a movie
\* only when it is an operation that recomputes, and the new values are the
\* ones that the seed and the personal ratings then stored give; the
\* resolver with its backfill, and the ledger writes of add_movie up to the
\* recomputation, leave the aggregate of every movie as it is.
C23_OnlyRecomputationWritesAggregate ==
    [][/\ \A m \in DOMAIN movies \cap DOMAIN movies' :
            Aggregate(movies', m) # Aggregate(movies, m) =>
                /\ last'.op \in RecomputingOps
                /\ AggregateConsistent(movies', user_movies', m)
       /\ \A inp \in WebAddMovieInputs :
            \A pick \in AddMoviePicks(movies, inp) :
                /\ SameAggregates(AddMovie(users, movies, user_movies, inp, pick,
                                           "recompute_commit").movies)
                /\ SameAggregates(GetOrCreateMovieInternal(
                       movies, user_movies, Strip(inp.title), inp.year, inp.imdb_id,
                       OmdbDataPayload(inp, Strip(inp.title)), pick, "none").movies)
      ]_vars

\* C23 witness: add_comment has just run on a catalog where the record from
\* before the external ids carries votes, so that a backfill is still to
\* come for it.
C23_Witness ==
    /\ last = [op |-> "add_comment", ok |-> TRUE]
    /\ \E m \in DOMAIN movies :
         /\ ~Truthy(movies[m].imdb_id)
         /\ movies[m].community_rating_count > 0
         /\ m \in TitleYearMatches(movies, <<"J">>, Some(1999))

----------------------------------------------------------------------------
(* C24: a POST /api/users/<user_id>/movies for an existing user, with a    *)
(* non-empty title and a valid optional year and rating, adds the movie:   *)
(* afterwards the user holds an entry for it, and the response is 201 with *)
(* the id of the movie.                                                    *)

ValidApiBody(data) ==
    /\ JsonTruthy(data.title)
    /\ Len(Strip(Val(data.title).text)) > 0
    /\ JsonTruthy(data.year) => ~IsNone(IntOf(Val(data.year)))
    /\ ~IsNone(data.rating) =>
          /\ ~IsNone(FloatOf(Val(data.rating)))
          /\ ValidRating(FloatOf(Val(data.rating)))

C24_ApiAddsMovie ==
    \A u \in DOMAIN users, data \in ApiAddMovieBodies :
        ValidApiBody(data) =>
            \A pick \in ApiPicks(movies, data) :
                LET res == AddMovieApi(users, movies, user_movies, u, data, pick)
                IN ~res.capped =>
                      /\ res.status = 201
                      /\ res.movie_id \in DOMAIN res.movies
                      /\ Len(res.user_movies[<<u, res.movie_id>>]) = 1

----------------------------------------------------------------------------
(* C25: add_movie for an existing user, a valid title and an external id   *)
(* that matches no record, with no record of that title and year, creates  *)
(* the movie and the entry of the user, also when the director (standing   *)
(* for the optional descriptive fields) or the year is None.               *)

C25_AbsentOptionalFieldsAccepted ==
    \A inp \in AddMovieInputs :
        (/\ inp.user_id \in DOMAIN users
         /\ ValidateMovieInput(Strip(inp.title), inp.year, inp.rating)
         /\ Truthy(inp.imdb_id)
         /\ MoviesByImdbId(movies, inp.imdb_id) = {}
         /\ TitleYearMatches(movies, Strip(inp.title), inp.year) = {})
        => LET res == AddMovie(users, movies, user_movies, inp, 0, "none")
           IN ~res.capped =>
                 /\ res.ret.ok
                 /\ res.ret.created
                 /\ Val(res.ret.movie) \notin DOMAIN movies
                 /\ res.movies[Val(res.ret.movie)].imdb_id = inp.imdb_id
                 /\ Len(res.user_movies[<<inp.user_id, Val(res.ret.movie)>>]) = 1

----------------------------------------------------------------------------
(* C26: once two concurrent add requests for the same user and movie have  *)
(* both completed, the pair has at most one entry, in every interleaving.  *)

C26_ConcurrentAddsLeaveOneEntry ==
    NoRequestInFlight =>
        \A u \in UserIds, m \in MovieIds : Len(user_movies[<<u, m>>]) <= 1

----------------------------------------------------------------------------
(* C27: when the external id X of a request matches no record and the      *)
(* title and year lookup finds a record m that carries another external    *)
(* id Y, the resolver returns m with created = false and leaves the        *)
(* catalog as it was, so m keeps Y and no record carries X; the entry of   *)
(* an add_movie with such a request is attached to m.                      *)

\* m carries an external id, X is another one that no record carries
CarriesAnotherId(ms, m, X) ==
    /\ Truthy(ms[m].imdb_id)
    /\ ms[m].imdb_id # X
    /\ MoviesByImdbId(ms, X) = {}

C27_ExistingRecordKeepsItsId ==
    /\ \A m \in DOMAIN movies, X \in ImdbIds \ {None}, t \in {<<"J">>, <<"j">>} :
         (/\ CarriesAnotherId(movies, m, X)
          /\ m \in TitleYearMatches(movies, t, movies[m].year))
         => \A od \in {None} \cup {r.omdb_data : r \in ResolveRequests(X)} :
              LET got == GetOrCreateMovieInternal(movies, user_movies, t, movies[m].year,
                                                  X, od, m, "none")
              IN /\ got.movie = Some(m)
                 /\ ~got.created
                 /\ got.movies = movies
    /\ \A inp \in AddMovieInputs : \A m \in AddMoviePicks(movies, inp) \ {0} :
         (/\ inp.user_id \in DOMAIN users
          /\ ValidateMovieInput(Strip(inp.title), inp.year, inp.rating)
          /\ Truthy(inp.imdb_id)
          /\ CarriesAnotherId(movies, m, inp.imdb_id))
         => LET res == AddMovie(users, movies, user_movies, inp, m, "none")
            IN /\ res.ret = [ok |-> TRUE, movie |-> Some(m), created |-> FALSE]
               /\ DOMAIN res.movies = DOMAIN movies
               /\ res.movies[m].imdb_id = movies[m].imdb_id
               /\ MoviesByImdbId(res.movies, inp.imdb_id) = {}
               /\ HoldsEntry(res.user_movies, inp.user_id, m, inp.rating)

\* C27 witness: an add_movie has just attached an entry to a record that
\* carries tt1, found by title and year, while no record carries tt2: the
\* state in which a request with tt2 meets the record of tt1.
C27_Witness ==
    /\ last = [op |-> "add_movie", ok |-> TRUE]
    /\ \E m \in DOMAIN movies, u \in DOMAIN users :
         /\ CarriesAnotherId(movies, m, Some("tt2"))
         /\ m \in TitleYearMatches(movies, <<"J">>, Some(1999))
         /\ Len(user_movies[<<u, m>>]) = 1
         /\ \E inp \in AddMovieInputs :
              /\ inp.imdb_id = Some("tt2")
              /\ m \in AddMoviePicks(movies, inp)
              /\ AddMovie(users, movies, user_movies, inp, m, "none").ret.movie = Some(m)

----------------------------------------------------------------------------
(* C28: a recommendation request that fails (the service lacks its key,    *)
(* times out, fails in transport or with an API error, raises, answers     *)
(* with no content, or answers with a text whose cleaned list is empty)    *)
(* leaves the history as it was and is answered with success = false and   *)
(* an empty list of recommendations; the history is written only in a      *)
(* round that returns at least one recommendation.                         *)

\* the request for the answer fails
FailsToRecommend(answer) ==
    \/ answer.error
    \/ Len(answer.raw_content) = 0
    \/ Len(CleanAiMovieListResponse(answer.raw_content)) = 0

C28_FailureReturnsEmptyList ==
    \A m \in DOMAIN movies, answer \in AiAnswers :
        LET res == GetAiMovieRecommendationsRoute(movies, ai_history, m, answer)
        IN /\ FailsToRecommend(answer) =>
                /\ res.history = ai_history
                /\ ~res.success
                /\ res.recommendations = Some(<<>>)
           /\ res.history # ai_history =>
                /\ res.success
                /\ ~IsNone(res.recommendations)
                /\ Len(Val(res.recommendations)) >= 1

----------------------------------------------------------------------------
(* C29: a call of the cached get_movie made less than CACHE_TIMEOUT        *)
(* seconds after a response was stored under its key returns the stored    *)
(* response, a stored 404 included, without running the view function and  *)
(* whatever the tables hold by now; a call made when the entry is at least *)
(* CACHE_TIMEOUT seconds old runs the view function and replaces the       *)
(* entry; a call whose view function raises stores nothing.                *)

C29_CacheServesStoredResponse ==
    \A m \in MovieIds, raises \in BOOLEAN :
        LET key == CacheKey("get_movie", m)
            res == CachedGetMovie(cache, now, movies, comments, m, raises)
            fresh == [timestamp |-> now, response |-> GetMovie(movies, comments, m)]
        IN /\ (key \in DOMAIN cache /\ now - cache[key].timestamp < CACHE_TIMEOUT)
              => /\ ~res.ran
                 /\ res.response = cache[key].response
                 /\ res.cache = cache
           /\ (key \in DOMAIN cache /\ now - cache[key].timestamp >= CACHE_TIMEOUT
               /\ ~raises)
              => /\ res.ran
                 /\ res.response = fresh.response
                 /\ res.cache = [cache EXCEPT ![key] = fresh]
           /\ (res.ran /\ raises)
              => /\ res.cache = cache
                 /\ res.response = InternalServerError

\* C29 witness: a request has just been answered from the cache with the
\* 404 stored less than CACHE_TIMEOUT seconds ago for a movie id that the
\* catalog holds by now.
C29_Witness ==
    /\ last = [op |-> "get_movie_cached", ok |-> FALSE]
    /\ \E m \in DOMAIN movies :
         /\ CacheKey("get_movie", m) \in DOMAIN cache
         /\ cache[CacheKey("get_movie", m)].response.status = 404
         /\ now - cache[CacheKey("get_movie", m)].timestamp < CACHE_TIMEOUT
         /\ now > cache[CacheKey("get_movie", m)].timestamp
    /\ \A m \in MovieIds :
         CacheKey("get_movie", m) \in DOMAIN cache
         => cache[CacheKey("get_movie", m)].response.status = 404

============================================================================
